---- MODULE Spec2Model ----
(***************************************************************************)
(* A model of imagefap-dl: the URL classifier (URLHelper), the fetcher     *)
(* (Fetcher.fetchHTML / Fetcher.downloadImage) and the traversal of        *)
(* ImageFapDownloader (start / #process and its helpers).                  *)
(***************************************************************************)
EXTENDS Integers, Sequences, FiniteSets, TLC

(***************************************************************************)
(* Bounds of the model.                                                    *)
(***************************************************************************)
\* longest pathname, in "/"-separated segments, given to the classifier
MaxSegs == 3
\* most galleries a folder of the site holds
MaxGalleries == 2
\* most images a gallery (or a favorites folder of images) holds
MaxImages == 2
\* images of the gallery whose navigation entries may not parse
MaxNavImages == 3
\* most images the whole site holds
MaxSiteImages == 4
\* largest configured request.maxRetries
MaxRetries == 1
\* most target URLs given to the downloader
MaxTargets == 2

VARIABLES
  cUrl,     \* classifier: the URL given to getTargetTypeByURL
  cType,    \* classifier: what getTargetTypeByURL returned or threw ("none" before the call)
  config,   \* this.config (frozen)
  site,     \* the web site: what its pages hold
  targets,  \* config.targetURLs
  status,   \* where start() is: "running", "stopping" (awaiting limiter.stop()), "done"
  ti,       \* start(): how many targets the for loop has begun
  stack,    \* the active #process calls, innermost last
  exc,      \* the error being thrown up the stack (NoError when none)
  pres,     \* the settled result of the awaited page fetch, not yet consumed
  context,  \* the DownloadContext object of the current target (shared by reference)
  stats,    \* the DownloadStats of the current target
  combined, \* combinedStats
  aborted,  \* params.signal.aborted
  session,  \* this.#fetcher: "none", "pending" (Fetcher.getInstance in flight), "ready"
  held,     \* page requests awaiting getFetcher()
  pq,       \* pageFetchLimiter: the queued jobs
  pj,       \* pageFetchLimiter: the executing job (fetchHTML and its retries)
  pstop,    \* pageFetchLimiter.stop() was called
  img,      \* the #downloadImage calls of the current fan-out, in index order
  istop,    \* imageDownloadLimiter.stop() was called
  files,    \* the output tree: path -> content
  parts,    \* the ".part" files that exist, by the path they are the part of
  hist,     \* history: what has happened in this run so far (not program state)
  prev,     \* history: whether the command is run a second time, and the first run's outcome
  cli,      \* ImageFapDownloaderCLI: the command line, where start() is, the logger, the exit code
  timers    \* the timers of pageFetchLimiter and of fetchHTML's retry that have not expired

runVars == <<config, site, targets, status, ti, stack, exc, pres, context, stats, combined,
             aborted, session, held, pq, pj, pstop, img, istop, files, parts, hist, prev,
             cli, timers>>
vars == <<cUrl, cType, config, site, targets, status, ti, stack, exc, pres, context, stats,
          combined, aborted, session, held, pq, pj, pstop, img, istop, files, parts, hist,
          prev, cli, timers>>

(***************************************************************************)
(* URLs.  A URL string is modelled by what `new URL(url)` makes of it:     *)
(* whether it parses, its host, its pathname as the sequence of segments   *)
(* between the "/" (pathname = "/" \o s1 \o "/" \o s2 ...; so "/" alone is *)
(* <<"">> and a trailing slash is a last empty segment), and the names of  *)
(* its query parameters.                                                   *)
(***************************************************************************)
SITE_HOST == "www.imagefap.com"

Hosts == {"imagefap.com", SITE_HOST, "example.com"}

\* "galleriesx" stands for any segment that only begins with "galleries"
Segments == {"", "x", "profile", "galleries", "galleriesx", "organizer", "pictures",
             "gallery", "photo", "usergallery.php", "gallery.php", "showfavorites.php"}

ParamNames == {"folderid", "userid", "gid"}

URL(host, segs, params) == [ok |-> TRUE, host |-> host, segs |-> segs, params |-> params]

\* a string `new URL()` rejects
BadURL == [ok |-> FALSE, host |-> "", segs |-> <<"">>, params |-> {}]

\* the characters of the pathname after its first segment and the "/" that
\* follows it are not empty: what a (.+) right after "/<s1>/" needs
RestNonEmpty(segs) == Len(segs) >= 2 /\ (Len(segs) > 2 \/ segs[2] # "")

\* /^\/profile\/(.+)\/galleries/
userGalleriesPathnameRegex(segs) ==
  /\ Len(segs) >= 3
  /\ segs[1] = "profile"
  /\ \E j \in 3..Len(segs) :
       /\ segs[j] \in {"galleries", "galleriesx"}
       /\ (j > 3 \/ segs[2] # "")

\* /^\/organizer\/(.+)\//
galleryFolderPathnameRegex(segs) ==
  /\ Len(segs) >= 3
  /\ segs[1] = "organizer"
  /\ (Len(segs) > 3 \/ segs[2] # "")

\* /^\/pictures\/(.+)\/|^\/pictures\/(.+)|^\/gallery\/(.+)/
galleryPathnameRegex(segs) ==
  /\ segs[1] \in {"pictures", "gallery"}
  /\ RestNonEmpty(segs)

\* /^\/photo\/(.+)\/|^\/photo\/(.+)/
photoPathnameRegex(segs) ==
  /\ segs[1] = "photo"
  /\ RestNonEmpty(segs)

TargetTypes == {"userGalleries", "galleryFolder", "gallery", "photo", "favorites",
                "favoritesFolder"}

\* the errors getTargetTypeByURL throws
ERR_INVALID == "Invalid URL"
ERR_HOST    == "Invalid URL: hostname does not match"
ERR_NOPATH  == "Invalid URL: no pathname"
ERR_UNKNOWN == "Could not determine operation type by URL"
ClassifyErrors == {ERR_INVALID, ERR_HOST, ERR_NOPATH, ERR_UNKNOWN}

\* a slip in the classifier: folderid is not looked at on a user-galleries path
getTargetTypeByURL_nofolderid(url) ==
  IF ~url.ok THEN ERR_INVALID
  ELSE IF url.host # "imagefap.com" /\ url.host # "www.imagefap.com" THEN ERR_HOST
  ELSE IF url.segs = <<"">> THEN ERR_NOPATH
  ELSE IF userGalleriesPathnameRegex(url.segs) THEN "userGalleries"
  ELSE IF galleryFolderPathnameRegex(url.segs)
          \/ (url.segs = <<"usergallery.php">> /\ "userid" \in url.params
              /\ "folderid" \in url.params) THEN "galleryFolder"
  ELSE IF galleryPathnameRegex(url.segs)
          \/ (url.segs = <<"gallery.php">> /\ "gid" \in url.params) THEN "gallery"
  ELSE IF photoPathnameRegex(url.segs) THEN "photo"
  ELSE IF url.segs = <<"showfavorites.php">> /\ "userid" \in url.params
       THEN "favorites"
  ELSE ERR_UNKNOWN

\* URLHelper.getTargetTypeByURL: the target type, or the message of the Error thrown
getTargetTypeByURL(url) ==
  IF ~url.ok THEN ERR_INVALID
  ELSE IF url.host # "imagefap.com" /\ url.host # "www.imagefap.com" THEN ERR_HOST
  ELSE IF url.segs = <<"">> THEN ERR_NOPATH
  ELSE IF userGalleriesPathnameRegex(url.segs)
       THEN (IF "folderid" \in url.params THEN "galleryFolder" ELSE "userGalleries")
  ELSE IF galleryFolderPathnameRegex(url.segs)
          \/ (url.segs = <<"usergallery.php">> /\ "userid" \in url.params
              /\ "folderid" \in url.params) THEN "galleryFolder"
  ELSE IF galleryPathnameRegex(url.segs)
          \/ (url.segs = <<"gallery.php">> /\ "gid" \in url.params) THEN "gallery"
  ELSE IF photoPathnameRegex(url.segs) THEN "photo"
  ELSE IF url.segs = <<"showfavorites.php">> /\ "userid" \in url.params
       THEN (IF "folderid" \in url.params THEN "favoritesFolder" ELSE "favorites")
  ELSE ERR_UNKNOWN

(***************************************************************************)
(* The configuration (DownloaderOptions.ts: DEFAULT_DOWNLOADER_CONFIG).    *)
(***************************************************************************)
DEFAULT_MAX_RETRIES == 3
DEFAULT_MAX_CONCURRENT == 10
DEFAULT_MIN_TIME_PAGE == 2000
DEFAULT_MIN_TIME_IMAGE == 200

\* request.proxy: null
NoProxy == "null"

DEFAULT_DOWNLOADER_CONFIG ==
  [ dirStructure  |-> [user |-> TRUE, favorites |-> TRUE, folder |-> TRUE, gallery |-> TRUE],
    seqFilenames  |-> FALSE,
    fullFilenames |-> FALSE,
    maxRetries    |-> DEFAULT_MAX_RETRIES,
    maxConcurrent |-> DEFAULT_MAX_CONCURRENT,
    minTimePage   |-> DEFAULT_MIN_TIME_PAGE,
    minTimeImage  |-> DEFAULT_MIN_TIME_IMAGE,
    proxy         |-> NoProxy,
    overwrite     |-> FALSE,
    saveJSON      |-> TRUE,
    saveHTML      |-> TRUE ]

(***************************************************************************)
(* The site.  A node names one fetchable URL of the site:                  *)
(*   user            the user-galleries page                               *)
(*   favs            the favorites page                                    *)
(*   folder f p      page p of gallery folder f                            *)
(*   favfolder v p   page p of favorites folder v                          *)
(*   gallery g p     listing page p of gallery g                           *)
(*   nav r i         the image-navigation page of referrer image r from i  *)
(*   photo m         the photo page of image m                             *)
(* and invalid / bad are two strings that are no URL of the site.          *)
(* site.nF folders, each of galleries laid out on pages as site.gl (the    *)
(* number of links of each page); each gallery of images laid out as       *)
(* site.il, served by the navigation pages in batches of site.nb, the      *)
(* entries at the positions site.nulls lacking their id or src; each       *)
(* favorites folder holds the galleries of the folder of the same number   *)
(* (site.fav = "galleries") or images laid out as site.vl; the listing of  *)
(* a gallery gives no title for the images at the positions site.untitled; *)
(* with site.httpErrors the server may answer a page request with a 4xx or *)
(* 5xx status and an error page; a navigation page asked for from index i  *)
(* begins site.overlap entries before i (0: the batches do not overlap);   *)
(* site.setCookie is the Set-Cookie header of the response to a request    *)
(* for the site root (NoCookie: the response has none).                    *)
(***************************************************************************)
Node(t, a, b) == [t |-> t, a |-> a, b |-> b]
NoNode == Node("none", 0, 0)

RECURSIVE SumTo(_, _)
SumTo(s, n) == IF n = 0 THEN 0 ELSE s[n] + SumTo(s, n - 1)

Total(s) == SumTo(s, Len(s))

\* the positions page p of a listing laid out as lay holds
PagePositions(lay, p) ==
  IF p \in 1..Len(lay) THEN [k \in 1..lay[p] |-> SumTo(lay, p - 1) + k] ELSE <<>>

HasNextPage(lay, p) == p < Len(lay)

\* the sequences of page sizes (each >= 1) that hold n items in all, n >= 0
RECURSIVE Layouts(_)
Layouts(n) ==
  IF n = 0 THEN {<<>>}
  ELSE UNION {{<<k>> \o l : l \in Layouts(n - k)} : k \in 1..n}

GalleryId(f, j) == f * 10 + j
ImageId(g, k) == g * 10 + k
FavImageId(v, k) == v * 1000 + k
FavFolderId(v) == 100 + v
TheUser == 7

\* the URL of a node, as the page that links to it (or the command line) gives it
URLOf(node) ==
  CASE node.t = "user"      -> URL(SITE_HOST, <<"profile", "x", "galleries">>, {})
    [] node.t = "favs"      -> URL(SITE_HOST, <<"showfavorites.php">>, {"userid"})
    [] node.t = "folder"    -> URL(SITE_HOST, <<"usergallery.php">>, {"userid", "folderid"})
    [] node.t = "favfolder" -> URL(SITE_HOST, <<"showfavorites.php">>, {"userid", "folderid"})
    [] node.t = "gallery"   -> URL(SITE_HOST, <<"gallery", "x">>, {})
    [] node.t = "favgallery" -> URL(SITE_HOST, <<"gallery.php">>, {"gid"})
    [] node.t = "photo"     -> URL(SITE_HOST, <<"photo", "x", "">>, {})
    [] node.t = "nav"       -> URL(SITE_HOST, <<"photo", "x", "">>, {"gid"})
    [] node.t = "invalid"   -> URL("example.com", <<"x">>, {})
    [] OTHER                -> BadURL

\* Parser.parseUserGalleriesPage / parseFavoritesPage: the folder links of the page
FolderLinks(node) ==
  [f \in 1..site.nF |-> Node(IF node.t = "user" THEN "folder" ELSE "favfolder", f, 1)]

\* Parser.parseGalleryFolderPage / parseFavoritesFolderPage: the gallery links
GalleryLinks(node) ==
  IF node.t = "favfolder" /\ site.fav # "galleries" THEN <<>>
  ELSE LET pos == PagePositions(site.gl, node.b)
       IN [k \in 1..Len(pos) |->
             Node(IF node.t = "favfolder" THEN "favgallery" ELSE "gallery",
                  GalleryId(node.a, pos[k]), 1)]

\* Parser.parseFavoritesFolderPage: the image links (looked for when no gallery link is found)
FavImageLinks(node) ==
  IF site.fav = "galleries" THEN <<>>
  ELSE LET pos == PagePositions(site.vl, node.b)
       IN [k \in 1..Len(pos) |-> FavImageId(node.a, pos[k])]

\* the ":: next ::" link of a folder page
FolderNextURL(node) ==
  LET lay == IF node.t = "favfolder" /\ site.fav # "galleries" THEN site.vl ELSE site.gl
  IN IF HasNextPage(lay, node.b) THEN Node(node.t, node.a, node.b + 1) ELSE NoNode

\* Parser.parseGalleryPage: the image links of a listing page, and its next page
ImageLinks(node) ==
  LET pos == PagePositions(site.il, node.b)
  IN [k \in 1..Len(pos) |-> ImageId(node.a, pos[k])]

GalleryNextURL(node) ==
  IF HasNextPage(site.il, node.b) THEN Node("gallery", node.a, node.b + 1) ELSE NoNode

Min(a, b) == IF a < b THEN a ELSE b

\* Parser.parseImageNav on the page the site serves for gallery g from index idx:
\* up to nb entries of the gallery behind the first from, 0 standing for null
NavImages(g, idx) ==
  LET n == Total(site.il)
      from == IF idx >= site.overlap THEN idx - site.overlap ELSE 0
      m == IF from >= n THEN 0 ELSE Min(site.nb, n - from)
  IN [k \in 1..m |-> IF (from + k) \in site.nulls THEN 0 ELSE ImageId(g, from + k)]

(***************************************************************************)
(* Errors, statistics, the download context and the output paths.          *)
(***************************************************************************)
NoError == "none"
E_FETCH   == "FetcherError"        \* new FetcherError(msg, url): fatal = false
E_FATAL   == "FetcherError(fatal)" \* new FetcherError(msg, url, true)
E_ABORT   == "AbortError"          \* fetch() rejected by the signal
E_PARSE   == "ParseError"          \* an Error thrown by the parser
E_URL     == "InvalidURL"          \* an Error thrown by getTargetTypeByURL
E_TYPE    == "Unsupported target type"
E_STOP    == "LimiterStopOnError"  \* the error of a job the stopped limiter dropped
E_SESSION == "SessionError"        \* fetch() of Fetcher.getInstance rejected
E_IO      == "IOError"             \* thrown by the stream or by renameSync

\* #isErrorNonContinuable, with the signal's state given
isNonContinuable(error, signalAborted) == signalAborted \/ error = E_FATAL

\* #isErrorNonContinuable
isErrorNonContinuable(error) == isNonContinuable(error, aborted)

\* #getEmptyStats
getEmptyStats ==
  [processedGalleryCount |-> 0, skippedPasswordProtectedFolderURLs |-> <<>>,
   skippedExistingImageCount |-> 0, downloadedImageCount |-> 0, errorCount |-> 0]

\* a slip: the error is logged and not counted
updateStatsOnError_lost(error, st) == st

\* #updateStatsOnError
updateStatsOnError(error, st) ==
  IF error # E_STOP THEN [st EXCEPT !.errorCount = @ + 1] ELSE st

\* { ...a, ...b } of two arrays (or of the object an earlier spread has made and
\* an array): the entries by their index, those of b over those of a
spread(a, b) ==
  [k \in DOMAIN a \cup DOMAIN b |-> IF k \in DOMAIN b THEN b[k] ELSE a[k]]

\* a slip: the error count is assigned, not added
mergeStats_assign(c, st) ==
  [processedGalleryCount     |-> c.processedGalleryCount + st.processedGalleryCount,
   skippedPasswordProtectedFolderURLs |->
     spread(c.skippedPasswordProtectedFolderURLs, st.skippedPasswordProtectedFolderURLs),
   skippedExistingImageCount |-> c.skippedExistingImageCount + st.skippedExistingImageCount,
   downloadedImageCount      |-> c.downloadedImageCount + st.downloadedImageCount,
   errorCount                |-> st.errorCount]

\* start(): the finally block adds the target's stats to combinedStats
mergeStats(c, st) ==
  [processedGalleryCount     |-> c.processedGalleryCount + st.processedGalleryCount,
   skippedPasswordProtectedFolderURLs |->
     spread(c.skippedPasswordProtectedFolderURLs, st.skippedPasswordProtectedFolderURLs),
   skippedExistingImageCount |-> c.skippedExistingImageCount + st.skippedExistingImageCount,
   downloadedImageCount      |-> c.downloadedImageCount + st.downloadedImageCount,
   errorCount                |-> c.errorCount + st.errorCount]

\* a GalleryFolder / FavoritesFolder record (id 0: undefined), and the absent one
Folder(id, hasTitle, owner) == [id |-> id, hasTitle |-> hasTitle, owner |-> owner]
NoFolder == Folder(-1, FALSE, 0)

\* context = {}
EmptyContext == [isFavorite |-> FALSE, galleryFolder |-> NoFolder]

\* a Gallery record as the save path reads it (id 0: undefined; uploader 0: undefined)
GalleryRec(id, uploader) == [id |-> id, uploader |-> uploader]
NoGallery == GalleryRec(-1, 0)

\* one sanitized segment of a save path: what it is made of, and the id in it
Seg(k, n) == [k |-> k, n |-> n]

\* a slip: the gallery's segment is put before the folder's
getGallerySavePath_swapped(gallery, ctx) ==
  LET cf == ctx.galleryFolder
      p1 == IF ctx.isFavorite
            THEN (IF config.dirStructure.user /\ cf # NoFolder /\ cf.owner # 0
                  THEN <<Seg("user", cf.owner)>> ELSE <<>>)
                 \o (IF config.dirStructure.favorites THEN <<Seg("Favorites", 0)>> ELSE <<>>)
            ELSE IF config.dirStructure.user /\ gallery # NoGallery /\ gallery.uploader # 0
                 THEN <<Seg("user", gallery.uploader)>> ELSE <<>>
      p2 == IF cf # NoFolder /\ cf.id # 0 /\ config.dirStructure.folder
            THEN <<Seg("folder title (id)", cf.id)>> ELSE <<>>
      p3 == IF config.dirStructure.gallery /\ gallery # NoGallery
            THEN <<Seg("gallery title (id)", gallery.id)>> ELSE <<>>
  IN p1 \o p3 \o p2

\* #getGallerySavePath: the segments under config.outDir
getGallerySavePath(gallery, ctx) ==
  LET cf == ctx.galleryFolder
      p1 == IF ctx.isFavorite
            THEN (IF config.dirStructure.user /\ cf # NoFolder /\ cf.owner # 0
                  THEN <<Seg("user", cf.owner)>> ELSE <<>>)
                 \o (IF config.dirStructure.favorites THEN <<Seg("Favorites", 0)>> ELSE <<>>)
            ELSE IF config.dirStructure.user /\ gallery # NoGallery /\ gallery.uploader # 0
                 THEN <<Seg("user", gallery.uploader)>> ELSE <<>>
      p2 == IF cf # NoFolder /\ cf.id # 0 /\ config.dirStructure.folder
            THEN (IF cf.hasTitle THEN <<Seg("folder title (id)", cf.id)>>
                                 ELSE <<Seg("folder id", cf.id)>>)
            ELSE <<>>
      p3 == IF config.dirStructure.gallery /\ gallery # NoGallery
            THEN (IF gallery.id # 0 THEN <<Seg("gallery title (id)", gallery.id)>>
                                    ELSE <<Seg("gallery title", 0)>>)
            ELSE <<>>
  IN p1 \o p2 \o p3

\* an Image: its id and its title ("" undefined, "t" the listing's title, "T" the full one)
Image(id, title) == [id |-> id, title |-> title]

\* a slip: an image without a title is named as if it had one
ImageFilename_suffix(image, index) ==
  [prefix |-> IF config.seqFilenames THEN index ELSE -1,
   name   |-> image.title,
   id     |-> image.id,
   withId |-> TRUE]

\* #downloadImage: the file name (index -1: no sequence prefix)
ImageFilename(image, index) ==
  [prefix |-> IF config.seqFilenames THEN index ELSE -1,
   name   |-> image.title,
   id     |-> image.id,
   withId |-> image.title # ""]

\* a file name that is no image's
OtherFilename(name) == [prefix |-> -1, name |-> name, id |-> 0, withId |-> FALSE]

\* path.resolve(destDir, filename)
PathOf(dir, filename) == [dir |-> dir, file |-> filename]

\* existsSync
existsSync(path) == path \in DOMAIN files

\* the output tree with one file written or replaced
WriteFile(fs, path, content) == [q \in DOMAIN fs \cup {path} |-> IF q = path THEN content ELSE fs[q]]

(***************************************************************************)
(* The state of a run.                                                     *)
(***************************************************************************)
\* a #process call: the target, its type, where the call is, and its locals
\* (those of the helper it is in: #getGalleryFolder, #getFavoritesFolder, #getGallery)
Frame(node) ==
  [ node       |-> node,     \* url
    url        |-> node,     \* the url of the helper call in progress (the page it fetches)
    type       |-> "",       \* targetType
    pc         |-> "enter",
    hasCur     |-> FALSE,    \* `current` is defined
    folder     |-> NoFolder, \* current.id / title / owner
    links      |-> <<>>,     \* the folder links, or current.galleryLinks
    i          |-> 0,        \* how many of links the for loop has gone through
    nextURL    |-> NoNode,
    imageLinks |-> <<>>,     \* current.imageLinks (ids), or the links of #getImagesByLink
    got        |-> {},       \* #getImagesByLink: which of the links have their image;
                             \* #updateImageLinksWithFullTitle: which have their fullTitle
    known      |-> FALSE,    \* the first listing page gave the gallery's id and uploader
    images     |-> <<>>,     \* gallery.images / current.images
    ref        |-> 0,        \* referrerImageID
    navIdx     |-> 0,
    total      |-> 0,        \* totalNavImageCount
    navs       |-> 0,        \* the navigation pages asked for (read by the properties only)
    full       |-> 0 ]       \* #updateImageLinksWithFullTitle: links that have their fullTitle

\* the pcs at which a call awaits something that is not a step of this thread
WaitPCs == {"list_wait", "gf_wait", "ff_wait", "links_wait", "gi_wait", "nav_wait",
            "ft_wait", "fan_wait", "in_child"}

Top == stack[Len(stack)]
SetTop(f) == [stack EXCEPT ![Len(stack)] = f]

\* a settled page fetch: fulfilled (bad: with a page the parser throws on; empty:
\* with the body of an error response, in which the parser finds none of the
\* elements it looks for) or rejected with err
Result(ok, bad, err) == [ok |-> ok, bad |-> bad, err |-> err, empty |-> FALSE]
NoResult == Result(FALSE, FALSE, NoError)
ErrorPage == [Result(TRUE, FALSE, NoError) EXCEPT !.empty = TRUE]

\* the headers a caller of #fetchPage supplies: none, or those of #getGallery for
\* the navigation page of referrer image r
NoHeaders == [contentType |-> "", referer |-> 0]
NavHeaders(r) == [contentType |-> "application/x-www-form-urlencoded", referer |-> r]

\* res.headers.get('set-cookie') when the response has no such header
NoCookie == ""

\* a request given to fetch(): its URL, the caller's headers and the Cookie header
Request(url, headers) == [url |-> url, headers |-> headers, cookie |-> NoCookie]
NoRequest == Request(NoNode, NoHeaders)

\* a job of the page limiter; slot 0: awaited by the innermost call, k >= 1: link k of
\* the #getImagesByLink in progress, -1: of a Promise.all that has already rejected
PageJob(node, slot) == [node |-> node, slot |-> slot]

IdleJob == [st |-> "idle", node |-> NoNode, slot |-> 0, rt |-> 0, calls |-> 0, got |-> "none",
            delay |-> 0, res |-> NoResult,
            args |-> [url |-> NoNode, headers |-> NoHeaders], \* of the fetchHTML call
            sent |-> NoRequest]                               \* its request

\* a #downloadImage call of the fan-out
ImgTask(image, path) ==
  [image |-> image, path |-> path, st |-> "new", calls |-> 0, thrown |-> NoError,
   sent |-> NoRequest]

ImgSettled == {"skipped", "done", "failed"}
ImgInFlight == {"fetching", "streaming"}

\* a slip: the fan-out is taken as over when its first call has returned
AllSettled_first ==
  Len(img) > 0 => \E k \in 1..Len(img) : img[k].st \in ImgSettled

\* Promise.all of the fan-out: every call of #downloadImage has returned
AllSettled == \A k \in 1..Len(img) : img[k].st \in ImgSettled

\* the thread is running (synchronous code, or promise reactions): no timer,
\* no response and no signal is handled before it comes to rest
Busy ==
  \/ exc # NoError
  \/ pres # NoResult
  \/ status = "running" /\ stack = <<>>
  \/ stack # <<>> /\ Top.pc \notin WaitPCs
  \/ stack # <<>> /\ Top.pc = "fan_wait" /\ AllSettled

\* what has happened in the run so far (read by the properties only)
EmptyHist ==
  [ fatal   |-> FALSE,  \* a page fetch has raised a fatal FetcherError
    skipped |-> {},     \* the galleries whose catch has logged "download skipped"
    bad     |-> 0,      \* pages the parser has thrown on (2: two or more)
    fetches |-> <<>>,   \* the folder pages fetch() has been called for, in order
    perTarget |-> <<>>, \* the stats of the targets start() is done with, in order
    inflight |-> 0,     \* the calls of fetch() for a page that have not settled
    base    |-> getEmptyStats, \* the stats when the last fan-out began
    sessions |-> 0,     \* the requests of Fetcher.getInstance that have settled
    other   |-> FALSE ] \* a request, a stream or a write of the output directory has
                        \* failed, or the site has asked for human verification

cfgVars == <<cUrl, cType, config, site, targets, prev, cli>>

(***************************************************************************)
(* The signal.                                                             *)
(***************************************************************************)
Abort ==
  /\ ~Busy /\ status = "running" /\ ~aborted
  /\ aborted' = TRUE
  /\ UNCHANGED <<cfgVars, timers, status, ti, stack, exc, pres, context, stats, combined, session,
                 held, pq, pj, pstop, img, istop, files, parts, hist>>

(***************************************************************************)
(* getFetcher / Fetcher.getInstance: the request to the site root.         *)
(***************************************************************************)
\* Fetcher.getInstance(logger?): the fetcher made for the call
\* getInstance(this.logger, this.config.request.proxy).  The parameter list ends
\* with logger and the constructor takes the logger and the cookie: the fetcher
\* has no dispatcher
getInstance(logger, proxy) == [logger |-> logger, dispatcher |-> NoProxy]

\* fetch(request, { signal }) of a fetcher (and fetch(request, { redirect })
\* of getInstance): where the request is sent
RouteOf(fetcher) == IF fetcher.dispatcher = NoProxy THEN "direct" ELSE fetcher.dispatcher

SessionRespond(ok) ==
  /\ ~Busy /\ session = "pending"
  /\ IF ok
     THEN /\ session' = "ready"
          /\ pq' = pq \o held
          /\ pres' = pres
     ELSE /\ session' = "none"
          /\ pq' = pq
          /\ pres' = Result(FALSE, FALSE, E_SESSION)
  /\ held' = <<>>
  /\ hist' = [hist EXCEPT !.other = @ \/ ~ok, !.sessions = @ + 1]
  /\ UNCHANGED <<cfgVars, timers, status, ti, stack, exc, context, stats, combined, aborted,
                 pj, pstop, img, istop, files, parts>>

(***************************************************************************)
(* pageFetchLimiter and Fetcher.fetchHTML.                                 *)
(***************************************************************************)
\* a slip in the retry test: one retry too many
fetchHTMLCatch_le(error, signalAborted, rt, maxRetries) ==
  IF signalAborted \/ error = E_FATAL THEN [act |-> "throw", err |-> error]
  ELSE IF rt <= maxRetries THEN [act |-> "retry", err |-> NoError]
  ELSE [act |-> "throw", err |-> E_FETCH]

\* a slip in the catch: a fatal error is retried like any other
fetchHTMLCatch_nofatal(error, signalAborted, rt, maxRetries) ==
  IF signalAborted THEN [act |-> "throw", err |-> error]
  ELSE IF rt < maxRetries THEN [act |-> "retry", err |-> NoError]
  ELSE [act |-> "throw", err |-> E_FETCH]

\* a slip in the catch: the signal is not looked at
fetchHTMLCatch_nosignal(error, signalAborted, rt, maxRetries) ==
  IF error = E_FATAL THEN [act |-> "throw", err |-> error]
  ELSE IF rt < maxRetries THEN [act |-> "retry", err |-> NoError]
  ELSE [act |-> "throw", err |-> E_FETCH]

\* fetchHTML: the catch block
fetchHTMLCatch(error, signalAborted, rt, maxRetries) ==
  IF signalAborted \/ error = E_FATAL THEN [act |-> "throw", err |-> error]
  ELSE IF rt < maxRetries THEN [act |-> "retry", err |-> NoError]
  ELSE [act |-> "throw", err |-> E_FETCH]

\* #fetchPage: the retryInterval given to fetchHTML
retryInterval == config.minTimePage

\* #fetchPage(url, signal, headers): the url and headers given to fetchHTML; only
\* #getGallery passes headers, for a navigation page
fetchPageArgs(node) ==
  [url |-> node, headers |-> IF node.t = "nav" THEN NavHeaders(node.a) ELSE NoHeaders]

\* fetchHTML: the arguments of the call that retries,
\* this.fetchHTML({ url, maxRetries, retryInterval, signal }, rt + 1)
retryArgs(args) == [url |-> args.url, headers |-> NoHeaders]

\* the #cookie of the fetcher getFetcher() returns
FetcherCookie == IF session = "ready" THEN site.setCookie ELSE NoCookie

\* a slip: the request is sent as it is
setHeaders_nocookie(request, cookie) == request

\* Fetcher.#setHeaders (the User-Agent, the same in every request, is left out)
setHeaders(request, cookie) ==
  IF cookie # NoCookie THEN [request EXCEPT !.cookie = cookie] ELSE request

(***************************************************************************)
(* Time.  The limiter's minTime and the retry interval are the same        *)
(* duration, config.request.minTime.page, so the timers of that duration   *)
(* expire in the order they were started.  timers.running holds the timers *)
(* that have not expired, oldest first, those started at the same instant  *)
(* together:                                                               *)
(*   "launch"   since pageFetchLimiter launched its last job (Bottleneck's *)
(*              minTime: no job is launched before it expires)             *)
(*   "sleep"    sleepBeforeExecute's timer of the retry                    *)
(*   "request"  since fetch() was last called for a page (not a timer of   *)
(*              the program: read by the properties only)                  *)
(* With timers.on false time is not modelled: every delay may have passed. *)
(***************************************************************************)
NoTimers == [on |-> FALSE, running |-> <<>>]

Pending(t) == timers.on /\ \E i \in 1..Len(timers.running) : t \in timers.running[i]

\* the timers ts are started now (a timer that was running starts again)
StartTimers(ts) ==
  IF ~timers.on THEN timers
  ELSE LET rest == [i \in 1..Len(timers.running) |-> timers.running[i] \ ts]
       IN [timers EXCEPT !.running = Append(SelectSeq(rest, LAMBDA g : g # {}), ts)]

\* a slip: the page limiter is given the maxConcurrent of the image limiter
PAGE_MAX_CONCURRENT_config == config.maxConcurrent

\* pageFetchLimiter: maxConcurrent
PAGE_MAX_CONCURRENT == 1

\* the limiter starts its next job: fetchHTML(args, rt = 0) calls fetch()
PageDispatch ==
  /\ ~Busy /\ ~pstop /\ pq # <<>>
  /\ (IF pj.st = "idle" THEN 0 ELSE 1) < PAGE_MAX_CONCURRENT
  /\ ~Pending("launch")
  /\ timers' = StartTimers({"launch", "request"})
  /\ LET args == fetchPageArgs(Head(pq).node)
     IN pj' = [IdleJob EXCEPT !.st = "fetching", !.node = Head(pq).node,
                              !.slot = Head(pq).slot, !.calls = 1, !.args = args,
                              !.sent = setHeaders(Request(args.url, args.headers),
                                                  FetcherCookie)]
  /\ pq' = Tail(pq)
  /\ hist' = [hist EXCEPT !.fetches = IF Head(pq).node.t \in {"folder", "favfolder"}
                                      THEN Append(@, Head(pq).node) ELSE @,
                          !.inflight = @ + 1]
  /\ UNCHANGED <<cfgVars, status, ti, stack, exc, pres, context, stats, combined, aborted,
                 session, held, pstop, img, istop, files, parts>>

\* the job's promise settles with r: who gets it
Settle(r, what) ==
  /\ pj' = [IdleJob EXCEPT !.calls = pj.calls, !.got = what, !.res = r]
  /\ hist' = [hist EXCEPT !.fatal = @ \/ r.err = E_FATAL,
                          !.bad   = IF r.bad THEN Min(@ + 1, 2) ELSE @,
                          !.other = @ \/ ~r.ok \/ r.empty,
                          !.inflight = @ - 1]
  /\ CASE pj.slot = 0 ->
            /\ pres' = r
            /\ UNCHANGED <<stack, pq>>
       [] pj.slot > 0 /\ r.ok /\ ~r.bad /\ ~r.empty ->
            \* the link's image is there; Promise.all fulfils with the last one
            /\ stack' = SetTop([Top EXCEPT !.got = @ \cup {pj.slot}])
            /\ pres' = IF Top.got \cup {pj.slot} = 1..Len(Top.imageLinks)
                       THEN Result(TRUE, FALSE, NoError) ELSE pres
            /\ pq' = pq
       [] pj.slot > 0 /\ ~(r.ok /\ ~r.bad /\ ~r.empty) ->
            \* Promise.all rejects (parsePhotoPage throws on a page without the
            \* image's elements); the other links' jobs stay in the limiter
            /\ pres' = Result(FALSE, FALSE, IF r.ok THEN E_PARSE ELSE r.err)
            /\ pq' = [k \in 1..Len(pq) |->
                        IF pq[k].slot > 0 THEN PageJob(pq[k].node, -1) ELSE pq[k]]
            /\ stack' = stack
       [] OTHER ->
            /\ UNCHANGED <<pres, stack, pq>>

\* fetch() settles.  what: "ok" a page, "bad" a page the parser throws on,
\* "status" a response with a 4xx or 5xx status, whose body is an error page,
\* "human" the /human-verification page, "fail" a rejection or an unreadable body
PageRespond(what) ==
  /\ ~Busy /\ pj.st = "fetching"
  /\ what \in (IF aborted THEN {"fail"}
               ELSE {"ok", "bad", "human", "fail"}
                    \cup (IF site.httpErrors THEN {"status"} ELSE {}))
  /\ IF what \in {"ok", "bad", "status"}
     THEN /\ Settle(IF what = "status" THEN ErrorPage ELSE Result(TRUE, what = "bad", NoError),
                    what)
          /\ UNCHANGED timers
     ELSE LET error == IF what = "human" THEN E_FATAL
                       ELSE IF aborted THEN E_ABORT ELSE E_IO
              c == fetchHTMLCatch(error, aborted, pj.rt, config.maxRetries)
          IN IF c.act = "retry"
             THEN /\ pj' = [pj EXCEPT !.st = "sleeping", !.delay = retryInterval, !.got = what]
                  /\ hist' = [hist EXCEPT !.other = TRUE, !.inflight = @ - 1]
                  /\ timers' = StartTimers({"sleep"})
                  /\ UNCHANGED <<pres, stack, pq>>
             ELSE Settle(Result(FALSE, FALSE, c.err), what) /\ UNCHANGED timers
  /\ UNCHANGED <<cfgVars, status, ti, exc, context, stats, combined, aborted, session,
                 held, pstop, img, istop, files, parts>>

\* sleepBeforeExecute: after retryInterval, fetchHTML(args, rt + 1) calls fetch()
PageWake ==
  /\ ~Busy /\ pj.st = "sleeping"
  /\ ~Pending("sleep")
  /\ timers' = StartTimers({"request"})
  /\ LET args == retryArgs(pj.args)
     IN pj' = [pj EXCEPT !.st = "fetching", !.rt = @ + 1, !.calls = @ + 1, !.args = args,
                         !.sent = setHeaders(Request(args.url, args.headers),
                                             FetcherCookie)]
  /\ hist' = [hist EXCEPT !.fetches = IF pj.node.t \in {"folder", "favfolder"}
                                      THEN Append(@, pj.node) ELSE @,
                          !.inflight = @ + 1]
  /\ UNCHANGED <<cfgVars, status, ti, stack, exc, pres, context, stats, combined, aborted,
                 session, held, pq, pstop, img, istop, files, parts>>

(***************************************************************************)
(* imageDownloadLimiter, #downloadImage and Fetcher.downloadImage.         *)
(***************************************************************************)
\* a slip: the existing file is not looked for
shouldSkip_never(exists, overwrite) == FALSE

\* a slip: an existing file is skipped whatever config.overwrite says
shouldSkip_always(exists, overwrite) == exists

\* #downloadImage: existsSync(destPath) && !this.config.overwrite
shouldSkip(exists, overwrite) == exists /\ ~overwrite

\* a slip: the body is streamed to the destination itself
startStream_direct(fs, ps, path) == [files |-> WriteFile(fs, path, "partial"), parts |-> ps]

\* Fetcher.downloadImage: pipeline(res.body, fs.createWriteStream(tmpFilePath)) begins
startStream(fs, ps, path) == [files |-> fs, parts |-> ps \cup {path}]

\* Fetcher.#cleanupDownload: unlink the ".part" file if it exists
cleanupDownload(ps, path) == ps \ {path}

\* Fetcher.#commitDownload: renameSync(tmpFilePath, destFilePath), then #cleanupDownload
commitDownload(fs, ps, path) ==
  [files |-> WriteFile(fs, path, "image"), parts |-> cleanupDownload(ps \ {path}, path)]

\* a slip: a failed image is rethrown to the fan-out
downloadImageCatch_throw(error, signalAborted) == "throw"

\* #downloadImage: the catch block
downloadImageCatch(error, signalAborted) ==
  IF isNonContinuable(error, signalAborted) THEN "throw" ELSE "count"

Running == {k \in 1..Len(img) : img[k].st \in ImgInFlight}
Queued == {k \in 1..Len(img) : img[k].st = "queued"}

\* the limiter starts its next job: Fetcher.downloadImage calls fetch()
ImgDispatch ==
  /\ ~Busy /\ ~istop /\ Queued # {}
  /\ Cardinality(Running) < config.maxConcurrent
  /\ LET k == CHOOSE q \in Queued : \A r \in Queued : q <= r
     IN img' = [img EXCEPT ![k].st = "fetching", ![k].calls = @ + 1,
                           ![k].sent = setHeaders(Request(Node("image", img[k].image.id, 0),
                                                          NoHeaders), FetcherCookie)]
  /\ UNCHANGED <<cfgVars, timers, status, ti, stack, exc, pres, context, stats, combined, aborted,
                 session, held, pq, pj, pstop, istop, files, parts, hist>>

\* Fetcher.downloadImage has thrown error in call k: the catch of #downloadImage,
\* and Promise.all, which rejects with the first error rethrown
ImgFailed(k, error) ==
  IF downloadImageCatch(error, aborted) = "throw"
  THEN /\ img' = [img EXCEPT ![k].st = "thrown", ![k].thrown = error]
       /\ pres' = IF stack # <<>> /\ Top.pc = "fan_wait" /\ pres = NoResult
                  THEN Result(FALSE, FALSE, error) ELSE pres
       /\ stats' = stats
  ELSE /\ img' = [img EXCEPT ![k].st = "failed", ![k].thrown = error]
       /\ stats' = updateStatsOnError(error, stats)
       /\ pres' = pres

\* fetch() of an image settles.  what: "ok" a response with a body, "fail" a
\* rejection, a status that is not ok or an empty body
ImgRespond(k, what) ==
  /\ ~Busy /\ k \in 1..Len(img) /\ img[k].st = "fetching"
  /\ what \in (IF aborted THEN {"fail"} ELSE {"ok", "fail"})
  /\ IF what = "ok"
     THEN LET w == startStream(files, parts, img[k].path)
          IN /\ files' = w.files
             /\ parts' = w.parts
             /\ img' = [img EXCEPT ![k].st = "streaming"]
             /\ UNCHANGED <<pres, stats>>
     ELSE /\ ImgFailed(k, IF aborted THEN E_ABORT ELSE E_FETCH)
          /\ UNCHANGED <<files, parts>>
  /\ hist' = [hist EXCEPT !.other = @ \/ what = "fail"]
  /\ UNCHANGED <<cfgVars, timers, status, ti, stack, exc, context, combined, aborted, session,
                 held, pq, pj, pstop, istop>>

\* the pipeline settles.  what: "done" the whole body is written (the rename
\* follows), "fail" the stream failed, "norename" renameSync throws
ImgStream(k, what) ==
  /\ ~Busy /\ k \in 1..Len(img) /\ img[k].st = "streaming"
  /\ what \in (IF aborted THEN {"done", "fail"} ELSE {"done", "fail", "norename"})
  /\ IF what = "done"
     THEN LET c == commitDownload(files, parts, img[k].path)
          IN /\ files' = c.files
             /\ parts' = c.parts
             /\ img' = [img EXCEPT ![k].st = "done"]
             /\ stats' = [stats EXCEPT !.downloadedImageCount = @ + 1]
             /\ pres' = pres
     ELSE /\ parts' = cleanupDownload(parts, img[k].path)
          /\ files' = files
          /\ ImgFailed(k, IF aborted THEN E_ABORT ELSE E_IO)
  /\ hist' = [hist EXCEPT !.other = @ \/ what # "done"]
  /\ UNCHANGED <<cfgVars, timers, status, ti, stack, exc, context, combined, aborted, session,
                 held, pq, pj, pstop, istop>>

(***************************************************************************)
(* ImageFapDownloader: start, #process and its helpers.  Each action is a  *)
(* stretch of the thread from one await to the next.                       *)
(***************************************************************************)
\* #fetchPage, for each job: await getFetcher(), then pageFetchLimiter.schedule
ReqPages(jobs) ==
  IF jobs = <<>> THEN UNCHANGED <<session, held, pq>>
  ELSE IF session = "ready"
       THEN /\ pq' = pq \o jobs
            /\ UNCHANGED <<session, held>>
       ELSE /\ held' = held \o jobs
            /\ session' = "pending"
            /\ pq' = pq

\* the innermost #process call returns, its caller's for loop goes on; when it
\* is start()'s call, the finally block merges the target's stats
Return(st, h) ==
  /\ stats' = st
  /\ IF Len(stack) = 1
     THEN /\ stack' = <<>>
          /\ combined' = mergeStats(combined, st)
          /\ hist' = [h EXCEPT !.perTarget = Append(@, st)]
     ELSE /\ stack' = [SubSeq(stack, 1, Len(stack) - 1) EXCEPT
                         ![Len(stack) - 1] = [@ EXCEPT !.i = @ + 1, !.pc = "loop"]]
          /\ combined' = combined
          /\ hist' = h

\* a slip: every target is processed with the context of the target before it
processContext_shared(ctx) == ctx

\* start(): this.#process(url, stats, params.signal) leaves the context out, and
\* #process takes a new {} as its default
processContext(ctx) == EmptyContext

\* start(): the for loop takes the next target
StartNext ==
  /\ status = "running" /\ stack = <<>> /\ exc = NoError /\ ti < Len(targets)
  /\ ti' = ti + 1
  /\ stack' = <<Frame(targets[ti + 1])>>
  /\ stats' = getEmptyStats
  /\ context' = processContext(context)
  /\ UNCHANGED <<cfgVars, timers, status, exc, pres, combined, aborted, session, held, pq, pj,
                 pstop, img, istop, files, parts, hist>>

\* start(): the for loop is over
StartFinish ==
  /\ status = "running" /\ stack = <<>> /\ exc = NoError /\ ti = Len(targets)
  /\ status' = "done"
  /\ UNCHANGED <<cfgVars, timers, ti, stack, exc, pres, context, stats, combined, aborted, session,
                 held, pq, pj, pstop, img, istop, files, parts, hist>>

\* a slip: stop() leaves the waiting jobs in the queue
dropWaitingJobs_keep(tasks) == tasks

\* imageDownloadLimiter.stop({ dropWaitingJobs: true }): the jobs that have not
\* started fail with the drop error
dropWaitingJobs(tasks) ==
  [k \in 1..Len(tasks) |->
     IF tasks[k].st = "queued" THEN [tasks[k] EXCEPT !.st = "dropped", !.thrown = E_STOP]
     ELSE tasks[k]]

\* start(): an error came out of #process: the inner catch and finally, then
\* the outer catch stops both limiters, dropping their waiting jobs
StartCatch ==
  /\ status = "running" /\ stack = <<>> /\ exc # NoError
  /\ LET st == IF ~aborted THEN updateStatsOnError(exc, stats) ELSE stats
     IN /\ stats' = st
        /\ combined' = mergeStats(combined, st)
        /\ hist' = [hist EXCEPT !.perTarget = Append(@, st)]
  /\ exc' = NoError
  /\ pstop' = TRUE
  /\ istop' = TRUE
  /\ pq' = <<>>
  /\ img' = dropWaitingJobs(img)
  /\ status' = "stopping"
  /\ UNCHANGED <<cfgVars, timers, ti, stack, pres, context, aborted, session, held, pj, files,
                 parts>>

\* start(): limiter.stop() resolves when no job is executing any more
StopDone ==
  /\ status = "stopping" /\ pj.st = "idle" /\ Running = {}
  /\ status' = "done"
  /\ UNCHANGED <<cfgVars, timers, ti, stack, exc, pres, context, stats, combined, aborted, session,
                 held, pq, pj, pstop, img, istop, files, parts, hist>>

WaitPcOf(t) ==
  CASE t \in {"userGalleries", "favorites"} -> "list_wait"
    [] t = "galleryFolder"   -> "gf_wait"
    [] t = "favoritesFolder" -> "ff_wait"
    [] OTHER                 -> "gi_wait"

\* #process: the target's type, and the first page fetch of its case
Enter ==
  /\ stack # <<>> /\ exc = NoError /\ Top.pc = "enter"
  /\ LET t == getTargetTypeByURL(URLOf(Top.node))
     IN IF t \in {"userGalleries", "favorites", "galleryFolder", "favoritesFolder", "gallery"}
        THEN /\ stack' = SetTop([Top EXCEPT !.type = t, !.pc = WaitPcOf(t)])
             /\ ReqPages(<<PageJob(Top.node, 0)>>)
             /\ exc' = exc
        ELSE /\ stack' = SetTop([Top EXCEPT !.type = t])
             /\ exc' = IF t = "photo" THEN E_TYPE ELSE E_URL
             /\ UNCHANGED <<session, held, pq>>
  /\ UNCHANGED <<cfgVars, timers, status, ti, pres, context, stats, combined, aborted, pj, pstop,
                 img, istop, files, parts, hist>>

\* the awaited promise rejected, or the parser throws on the page
OnError ==
  /\ stack # <<>> /\ exc = NoError /\ pres # NoResult /\ (~pres.ok \/ pres.bad)
  /\ exc' = IF pres.ok THEN E_PARSE ELSE pres.err
  /\ pres' = NoResult
  /\ UNCHANGED <<cfgVars, timers, status, ti, stack, context, stats, combined, aborted, session,
                 held, pq, pj, pstop, img, istop, files, parts, hist>>

PageOk(pc) == stack # <<>> /\ exc = NoError /\ Top.pc = pc /\ pres.ok /\ ~pres.bad

\* case 'userGalleries' / 'favorites': the folder links of the page
OnList ==
  /\ PageOk("list_wait")
  /\ stack' = SetTop([Top EXCEPT !.links = IF pres.empty THEN <<>> ELSE FolderLinks(Top.node),
                                 !.i = 0, !.pc = "loop"])
  /\ pres' = NoResult
  /\ UNCHANGED <<cfgVars, timers, status, ti, exc, context, stats, combined, aborted, session,
                 held, pq, pj, pstop, img, istop, files, parts, hist>>

\* the folder and owner a folder page gives (its selected folder link)
FolderOf(node) ==
  Folder(IF node.t = "favfolder" THEN FavFolderId(node.a) ELSE node.a, TRUE, TheUser)

\* `current` after a page that has no folder link, no owner and no item
AccumulateNothing(f) ==
  IF ~f.hasCur THEN [f EXCEPT !.hasCur = TRUE, !.folder = Folder(0, FALSE, 0)] ELSE f

\* a slip: a page's items replace the items of the pages before it
Accumulate_replace(f, galleryLinks, images) ==
  [f EXCEPT !.hasCur = TRUE, !.folder = FolderOf(f.url), !.links = galleryLinks,
            !.images = images]

\* #getGalleryFolder / #getFavoritesFolder: `current` after a page
Accumulate(f, galleryLinks, images) ==
  IF ~f.hasCur
  THEN [f EXCEPT !.hasCur = TRUE, !.folder = FolderOf(f.url), !.links = galleryLinks,
                 !.images = images]
  ELSE [f EXCEPT !.links = @ \o galleryLinks, !.images = @ \o images]

\* a folder helper after a page: the recursive call for nextURL, or the return
\* to #process, which sets the context and starts its loop over the gallery links
FolderGoOn(f, nextURL) ==
  IF nextURL # NoNode
  THEN /\ stack' = SetTop([f EXCEPT !.url = nextURL,
                             !.pc = IF f.type = "galleryFolder" THEN "gf_wait" ELSE "ff_wait"])
       /\ ReqPages(<<PageJob(nextURL, 0)>>)
       /\ context' = context
  ELSE /\ stack' = SetTop([f EXCEPT !.pc = "loop", !.i = 0])
       /\ context' = [isFavorite    |-> context.isFavorite \/ f.type = "favoritesFolder",
                      galleryFolder |-> f.folder]
       /\ UNCHANGED <<session, held, pq>>

\* #getGalleryFolder: a page of the folder
OnFolderPage ==
  /\ PageOk("gf_wait")
  /\ IF pres.empty
     THEN FolderGoOn(AccumulateNothing(Top), NoNode)
     ELSE FolderGoOn(Accumulate(Top, GalleryLinks(Top.url), <<>>), FolderNextURL(Top.url))
  /\ pres' = NoResult
  /\ UNCHANGED <<cfgVars, timers, status, ti, exc, stats, combined, aborted, pj, pstop, img,
                 istop, files, parts, hist>>

\* #getFavoritesFolder: a page of the folder; its image links go to #getImagesByLink,
\* which asks for all their photo pages at once
OnFavPage ==
  /\ PageOk("ff_wait")
  /\ LET il == FavImageLinks(Top.url)
     IN IF pres.empty
        THEN FolderGoOn(AccumulateNothing(Top), NoNode)
        ELSE IF Len(il) > 0
        THEN /\ stack' = SetTop([Top EXCEPT !.imageLinks = il, !.got = {},
                                            !.pc = "links_wait"])
             /\ ReqPages([k \in 1..Len(il) |-> PageJob(Node("photo", il[k], 0), k)])
             /\ context' = context
        ELSE FolderGoOn(Accumulate(Top, GalleryLinks(Top.url), <<>>), FolderNextURL(Top.url))
  /\ pres' = NoResult
  /\ UNCHANGED <<cfgVars, timers, status, ti, exc, stats, combined, aborted, pj, pstop, img,
                 istop, files, parts, hist>>

\* #getFavoritesFolder: #getImagesByLink has every image of the page
OnLinks ==
  /\ PageOk("links_wait")
  /\ LET ims == [k \in 1..Len(Top.imageLinks) |-> Image(Top.imageLinks[k], "T")]
     IN FolderGoOn(Accumulate(Top, <<>>, ims), FolderNextURL(Top.url))
  /\ pres' = NoResult
  /\ UNCHANGED <<cfgVars, timers, status, ti, exc, stats, combined, aborted, pj, pstop, img,
                 istop, files, parts, hist>>

\* #getGallery after #getGalleryInitialData: the first navigation page, if any link
\* was found; else on to the full titles
AfterNav(f) ==
  IF config.fullFilenames /\ Len(f.imageLinks) > 0
  THEN [frame |-> [f EXCEPT !.pc = "ft_wait", !.full = 0, !.got = {}],
        jobs  |-> <<PageJob(Node("photo", f.imageLinks[1], 0), 0)>>]
  ELSE [frame |-> [f EXCEPT !.pc = "save"], jobs |-> <<>>]

AfterInitialData(f) ==
  IF Len(f.imageLinks) > 0
  THEN [frame |-> [f EXCEPT !.ref = f.imageLinks[1], !.navIdx = 0, !.total = 0, !.images = <<>>,
                            !.navs = 1, !.pc = "nav_wait"],
        jobs  |-> <<PageJob(Node("nav", f.imageLinks[1], 0), 0)>>]
  ELSE AfterNav([f EXCEPT !.images = <<>>])

GoOn(r) ==
  /\ stack' = SetTop(r.frame)
  /\ ReqPages(r.jobs)

\* #getGalleryInitialData: a listing page of the gallery
OnGalleryPage ==
  /\ PageOk("gi_wait")
  /\ LET f == [Top EXCEPT !.hasCur = TRUE,
                          !.known = IF Top.hasCur THEN @ ELSE ~pres.empty,
                          !.imageLinks = IF pres.empty THEN @ ELSE @ \o ImageLinks(Top.url)]
         nextURL == IF pres.empty THEN NoNode ELSE GalleryNextURL(Top.url)
     IN IF nextURL # NoNode
        THEN GoOn([frame |-> [f EXCEPT !.url = nextURL], jobs |-> <<PageJob(nextURL, 0)>>])
        ELSE GoOn(AfterInitialData(f))
  /\ pres' = NoResult
  /\ UNCHANGED <<cfgVars, timers, status, ti, exc, context, stats, combined, aborted, pj, pstop,
                 img, istop, files, parts, hist>>

\* a slip: the loop goes on whenever the batch is not empty and the link count
\* is not reached
navGoesOn_noanchor(navImages, parsedImages, total, links) ==
  Len(navImages) > 0 /\ total < links

\* a slip: the loop goes on until a batch is empty or has no parsed entry
navGoesOn_nolimit(navImages, parsedImages, total, links) ==
  Len(navImages) > 0 /\ Len(parsedImages) > 0

\* a slip: the entries that parsed are counted, not all the entries
navGoesOn_parsed(navImages, parsedImages, total, links) ==
  /\ Len(navImages) > 0 /\ total - (Len(navImages) - Len(parsedImages)) < links
  /\ Len(parsedImages) > 0

\* #getGallery: whether the while loop asks for another navigation page
\* (total: totalNavImageCount with this batch; links: imageLinks.length)
navGoesOn(navImages, parsedImages, total, links) ==
  Len(navImages) > 0 /\ total < links /\ Len(parsedImages) > 0

\* #getGallery: a navigation page, inside the while loop
OnNav ==
  /\ PageOk("nav_wait")
  /\ LET navImages == IF pres.empty THEN <<>> ELSE NavImages(Top.node.a, Top.navIdx)
         parsedImages == SelectSeq(navImages, LAMBDA m : m # 0)
         total == Top.total + Len(navImages)
         f == [Top EXCEPT !.total = total,
                 !.images = @ \o [k \in 1..Len(parsedImages) |-> Image(parsedImages[k], "")]]
     IN /\ stats' = [stats EXCEPT !.errorCount = @ + (Len(navImages) - Len(parsedImages))]
        /\ IF navGoesOn(navImages, parsedImages, total, Len(Top.imageLinks))
           THEN LET last == IF Len(parsedImages) > 0 THEN parsedImages[Len(parsedImages)]
                            ELSE Top.ref
                    idx == Top.navIdx + Len(navImages)
                IN GoOn([frame |-> [f EXCEPT !.ref = last, !.navIdx = idx, !.navs = @ + 1],
                         jobs  |-> <<PageJob(Node("nav", last, idx), 0)>>])
           ELSE GoOn(AfterNav(f))
  /\ pres' = NoResult
  /\ UNCHANGED <<cfgVars, timers, status, ti, exc, context, combined, aborted, pj, pstop, img,
                 istop, files, parts, hist>>

\* #updateImageLinksWithFullTitle: the photo page of a link
OnFullTitle ==
  /\ PageOk("ft_wait")
  /\ LET n == Top.full + 1
         f == [Top EXCEPT !.full = n, !.got = IF pres.empty THEN @ ELSE @ \cup {n}]
     IN IF n < Len(Top.imageLinks)
        THEN GoOn([frame |-> f,
                   jobs  |-> <<PageJob(Node("photo", Top.imageLinks[n + 1], 0), 0)>>])
        ELSE GoOn([frame |-> [f EXCEPT !.pc = "save"], jobs |-> <<>>])
  /\ pres' = NoResult
  /\ UNCHANGED <<cfgVars, timers, status, ti, exc, context, stats, combined, aborted, pj, pstop,
                 img, istop, files, parts, hist>>

\* #getGallery: an image takes the title of the link with its id (link.fullTitle ||
\* link.title; the links at the positions got have their fullTitle; the listing
\* gives no title for the images at site.untitled)
WithLinkTitle(image, links, got) ==
  IF \E k \in 1..Len(links) : links[k] = image.id
  THEN Image(image.id, IF \E k \in got : links[k] = image.id THEN "T"
                       ELSE IF \E k \in site.untitled : image.id = ImageId(image.id \div 10, k)
                            THEN "" ELSE "t")
  ELSE image

\* a slip: every image is given the index of the first
Tasks_sameindex(images, dir) ==
  [k \in 1..Len(images) |-> ImgTask(images[k], PathOf(dir, ImageFilename(images[k], 0)))]

\* the calls of #downloadImage the fan-out is about to make
Tasks(images, dir) ==
  [k \in 1..Len(images) |-> ImgTask(images[k], PathOf(dir, ImageFilename(images[k], k - 1)))]

\* the file system calls that write the directory and the sidecar files, in the
\* order they are made
SaveSteps(json, html) ==
  <<"dir">> \o (IF json THEN <<"json">> ELSE <<>>) \o (IF html THEN <<"html">> ELSE <<>>)

\* the sidecar files written when the calls up to (not including) number n are made
SidecarsWritten(steps, n) == {steps[k] : k \in 1..(n - 1)} \ {"dir"}

\* case 'gallery': the directory and the sidecar files.  failAt: the call that
\* throws (ensureDirSync, writeJSONSync, writeFileSync), 0 when none does
SaveGallery(failAt) ==
  /\ stack # <<>> /\ exc = NoError /\ Top.pc = "save"
  /\ LET images == [k \in 1..Len(Top.images) |->
                      WithLinkTitle(Top.images[k], Top.imageLinks, Top.got)]
         dir == getGallerySavePath(IF Top.known THEN GalleryRec(Top.node.a, TheUser)
                                   ELSE GalleryRec(0, 0), context)
         steps == SaveSteps(config.saveJSON, config.saveHTML)
         done == SidecarsWritten(steps, IF failAt = 0 THEN Len(steps) + 1 ELSE failAt)
         f1 == IF "json" \in done
               THEN WriteFile(files, PathOf(dir, OtherFilename("gallery.json")), "json")
               ELSE files
         f2 == IF "html" \in done
               THEN WriteFile(f1, PathOf(dir, OtherFilename("gallery.html")), "html")
               ELSE f1
     IN /\ failAt \in 0..Len(steps)
        /\ files' = f2
        /\ IF failAt = 0
           THEN /\ img' = Tasks(images, dir)
                /\ stack' = SetTop([Top EXCEPT !.images = images, !.pc = "fan_out"])
                /\ hist' = [hist EXCEPT !.base = stats]
                /\ exc' = exc
           ELSE /\ exc' = E_IO
                /\ hist' = [hist EXCEPT !.other = TRUE]
                /\ UNCHANGED <<img, stack>>
  /\ UNCHANGED <<cfgVars, timers, status, ti, pres, context, stats, combined, aborted, session,
                 held, pq, pj, pstop, istop, parts>>

\* case 'favoritesFolder': the directory and the sidecar file of the folder's own images
SaveFavorites(failAt) ==
  /\ stack # <<>> /\ exc = NoError /\ Top.pc = "fav_save"
  /\ LET dir == getGallerySavePath(NoGallery, context)
         steps == SaveSteps(config.saveJSON, FALSE)
         done == SidecarsWritten(steps, IF failAt = 0 THEN Len(steps) + 1 ELSE failAt)
     IN /\ failAt \in 0..Len(steps)
        /\ files' = IF "json" \in done
                    THEN WriteFile(files, PathOf(dir, OtherFilename("favorites.json")), "json")
                    ELSE files
        /\ IF failAt = 0
           THEN /\ img' = Tasks(Top.images, dir)
                /\ stack' = SetTop([Top EXCEPT !.pc = "fan_out"])
                /\ hist' = [hist EXCEPT !.base = stats]
                /\ exc' = exc
           ELSE /\ exc' = E_IO
                /\ hist' = [hist EXCEPT !.other = TRUE]
                /\ UNCHANGED <<img, stack>>
  /\ UNCHANGED <<cfgVars, timers, status, ti, pres, context, stats, combined, aborted, session,
                 held, pq, pj, pstop, istop, parts>>

\* images.map(... #downloadImage ...): every call runs up to its first await; the
\* files that exist are skipped, the others are handed to the image limiter
FanOut ==
  /\ stack # <<>> /\ exc = NoError /\ Top.pc = "fan_out"
  /\ LET skip == {k \in 1..Len(img) : shouldSkip(existsSync(img[k].path), config.overwrite)}
     IN /\ img' = [k \in 1..Len(img) |->
                     [img[k] EXCEPT !.st = IF k \in skip THEN "skipped" ELSE "queued"]]
        /\ stats' = [stats EXCEPT !.skippedExistingImageCount = @ + Cardinality(skip)]
  /\ stack' = SetTop([Top EXCEPT !.pc = "fan_wait"])
  /\ UNCHANGED <<cfgVars, timers, status, ti, exc, pres, context, combined, aborted, session,
                 held, pq, pj, pstop, istop, files, parts, hist>>

\* Promise.all of the fan-out fulfils; a gallery is counted as processed
FanDone ==
  /\ stack # <<>> /\ exc = NoError /\ pres = NoResult /\ Top.pc = "fan_wait" /\ AllSettled
  /\ Return(IF Top.type = "gallery"
            THEN [stats EXCEPT !.processedGalleryCount = @ + 1] ELSE stats, hist)
  /\ UNCHANGED <<cfgVars, timers, status, ti, exc, pres, context, aborted, session, held, pq, pj,
                 pstop, img, istop, files, parts>>

\* the for loop over the folder links / gallery links: the next #process call,
\* or what follows the loop
Loop ==
  /\ stack # <<>> /\ exc = NoError /\ Top.pc = "loop"
  /\ IF Top.i < Len(Top.links)
     THEN /\ stack' = Append(SetTop([Top EXCEPT !.pc = "in_child"]), Frame(Top.links[Top.i + 1]))
          /\ UNCHANGED <<stats, combined, hist>>
     ELSE IF Top.type = "favoritesFolder" /\ Len(Top.images) > 0
          THEN /\ stack' = SetTop([Top EXCEPT !.pc = "fav_save"])
               /\ UNCHANGED <<stats, combined, hist>>
          ELSE Return(stats, hist)
  /\ UNCHANGED <<cfgVars, timers, status, ti, exc, pres, context, aborted, session, held, pq, pj,
                 pstop, img, istop, files, parts>>

\* a slip: the catch rethrows every error
paginationCatch_strict(error, signalAborted, hasCur) == "throw"

\* a slip: the catch does not look at `current`
paginationCatch_lenient(error, signalAborted, hasCur) ==
  IF isNonContinuable(error, signalAborted) THEN "throw" ELSE "count"

\* the catch of #getGalleryFolder, #getFavoritesFolder and #getGalleryInitialData
paginationCatch(error, signalAborted, hasCur) ==
  IF isNonContinuable(error, signalAborted) \/ ~hasCur THEN "throw" ELSE "count"

\* a slip: the gallery's catch rethrows every error
galleryCatch_rethrow(error, signalAborted) == "throw"

\* case 'gallery': the catch around #getGallery
galleryCatch(error, signalAborted) ==
  IF isNonContinuable(error, signalAborted) THEN "throw" ELSE "skip"

HelperPCs == {"gf_wait", "ff_wait", "links_wait", "gi_wait"}
GalleryTryPCs == {"gi_wait", "nav_wait", "ft_wait"}

\* an error is thrown in the innermost #process call: the catch blocks around
\* the point where the call is, innermost first
Catch ==
  /\ stack # <<>> /\ exc # NoError
  /\ LET f == Top
         h == IF f.pc \in HelperPCs THEN paginationCatch(exc, aborted, f.hasCur) ELSE "throw"
         g == IF f.type = "gallery" /\ f.pc \in GalleryTryPCs /\ h = "throw"
              THEN galleryCatch(exc, aborted) ELSE "throw"
     IN IF h = "count"
        THEN \* the page is passed over; nextURL is undefined, the helper returns
             /\ stats' = updateStatsOnError(exc, stats)
             /\ exc' = NoError
             /\ IF f.type = "gallery"
                THEN GoOn(AfterInitialData(f)) /\ context' = context
                ELSE FolderGoOn(f, NoNode)
             /\ UNCHANGED <<combined, hist>>
        ELSE IF g = "skip"
        THEN \* the gallery is logged as skipped and #process returns
             /\ exc' = NoError
             /\ Return(stats, [hist EXCEPT !.skipped = @ \cup {f.node.a}])
             /\ UNCHANGED <<context, session, held, pq>>
        ELSE \* the error leaves this #process call
             /\ stack' = SubSeq(stack, 1, Len(stack) - 1)
             /\ UNCHANGED <<exc, stats, combined, context, session, held, pq, hist>>
  /\ UNCHANGED <<cfgVars, timers, status, ti, pres, aborted, pj, pstop, img, istop, files, parts>>

(***************************************************************************)
(* The runs the model starts from: the target URLs, what the site holds,   *)
(* the configuration and what the output directory already holds.          *)
(***************************************************************************)
SiteOf(nF, gl, il, nb, nulls, fav, vl) ==
  [nF |-> nF, gl |-> gl, il |-> il, nb |-> nb, nulls |-> nulls, fav |-> fav, vl |-> vl,
   untitled |-> {}, httpErrors |-> FALSE, overlap |-> 0, setCookie |-> "sid"]

LayoutsUpTo(n) == UNION {Layouts(m) : m \in 0..n}

FirstGalleryId == GalleryId(1, 1)

\* one gallery given by its URL: every layout, batch size and null entry
GalleryRuns ==
  {r \in {[targets |-> <<Node("gallery", FirstGalleryId, 1)>>,
           site    |-> SiteOf(1, <<1>>, il, nb, nulls, "galleries", <<>>)] :
            il \in LayoutsUpTo(MaxImages), nb \in 1..MaxImages, nulls \in {{}, {1}}} :
     /\ r.site.nulls \subseteq 1..Total(r.site.il)
     /\ r.site.nb <= IF Total(r.site.il) = 0 THEN 1 ELSE Total(r.site.il)}

\* one gallery folder, or the user's folders
FolderRuns ==
  {r \in {[targets |-> <<t>>, site |-> SiteOf(nF, gl, <<n>>, n, {}, "galleries", <<>>)] :
            t \in {Node("folder", 1, 1), Node("user", 0, 0)}, nF \in 1..2,
            gl \in LayoutsUpTo(MaxGalleries), n \in 1..MaxImages} :
     /\ r.site.nF * Total(r.site.gl) * Total(r.site.il) <= MaxSiteImages
     /\ r.targets[1].t = "folder" => r.site.nF = 1
     /\ r.targets[1].t = "user" => Total(r.site.gl) = 1 /\ Total(r.site.il) = 1}

\* one favorites folder (of galleries, or of images), or the user's favorites
FavoritesRuns ==
  {[targets |-> <<Node("favfolder", 1, 1)>>,
    site    |-> SiteOf(1, gl, <<1>>, 1, {}, "galleries", <<>>)] :
     gl \in LayoutsUpTo(MaxGalleries)}
  \cup
  {[targets |-> <<Node("favs", 0, 0)>>,
    site    |-> SiteOf(nF, <<1>>, <<1>>, 1, {}, "galleries", <<>>)] : nF \in 1..2}
  \cup
  {[targets |-> <<Node("favfolder", 1, 1)>>,
    site    |-> SiteOf(1, <<>>, <<>>, 1, {}, "images", vl)] :
     vl \in LayoutsUpTo(MaxImages + 1)}

\* several targets, and targets that are no page the downloader supports
ListRuns ==
  {[targets |-> ts, site |-> SiteOf(1, <<1>>, <<1>>, 1, {}, "galleries", <<>>)] :
     ts \in UNION {[1..n -> {Node("gallery", FirstGalleryId, 1), Node("invalid", 0, 0)}] :
                     n \in 0..MaxTargets}
            \cup {<<Node("photo", 1, 0)>>, <<Node("bad", 0, 0)>>}}

\* a folder (gallery folder or favorites folder) of one gallery, then a gallery
\* given by its own URL
MixedRuns ==
  {[targets |-> <<t, Node("gallery", FirstGalleryId, 1)>>,
    site    |-> SiteOf(1, <<1>>, <<1>>, 1, {}, "galleries", <<>>)] :
     t \in {Node("folder", 1, 1), Node("favfolder", 1, 1)}}

Runs == GalleryRuns \cup FolderRuns \cup FavoritesRuns \cup ListRuns \cup MixedRuns

\* one gallery of MaxNavImages images on one listing page, some of whose
\* navigation entries lack their id or src
NullRuns ==
  {[targets |-> <<Node("gallery", FirstGalleryId, 1)>>,
    site    |-> SiteOf(1, <<1>>, <<MaxNavImages>>, nb, nulls, "galleries", <<>>)] :
     nb \in 1..MaxNavImages, nulls \in (SUBSET (1..MaxNavImages)) \ {{}}}

\* one gallery of MaxNavImages images on one listing page, whose navigation
\* pages overlap by one entry
OverlapRuns ==
  {[targets |-> <<Node("gallery", FirstGalleryId, 1)>>,
    site    |-> [SiteOf(1, <<1>>, <<MaxNavImages>>, nb, {}, "galleries", <<>>)
                   EXCEPT !.overlap = 1]] : nb \in 2..MaxNavImages}

\* the runs that download the images of one gallery or of one favorites folder
FanRuns == {r \in GalleryRuns : r.site.nulls = {}}
           \cup {r \in FavoritesRuns : r.site.fav = "images"}

\* how many images the site of a run holds
ImagesOf(r) == r.site.nF * Total(r.site.gl) * Total(r.site.il) + Total(r.site.vl)

\* config.request.maxRetries
RetryConfigs ==
  {[DEFAULT_DOWNLOADER_CONFIG EXCEPT !.maxRetries = r] : r \in 0..MaxRetries}

NoRetryConfig == [DEFAULT_DOWNLOADER_CONFIG EXCEPT !.maxRetries = 0]

SerialConfig == [NoRetryConfig EXCEPT !.maxConcurrent = 1]

OverwriteConfig == [NoRetryConfig EXCEPT !.overwrite = TRUE]

OptionConfigs ==
  {[NoRetryConfig EXCEPT !.fullFilenames = TRUE],
   [NoRetryConfig EXCEPT !.seqFilenames = TRUE],
   [NoRetryConfig EXCEPT !.saveJSON = FALSE, !.saveHTML = FALSE],
   [NoRetryConfig EXCEPT !.dirStructure = [user |-> FALSE, favorites |-> FALSE,
                                           folder |-> FALSE, gallery |-> FALSE]]}

\* the runs the model starts: a run, a configuration, and whether an earlier run
\* has left the first image in the output directory
\* and whether the command will be run a second time
Cases ==
  {[run |-> r, config |-> NoRetryConfig, pre |-> FALSE, again |-> FALSE] : r \in Runs}
  \cup {[run |-> r, config |-> c, pre |-> FALSE, again |-> FALSE] :
          r \in {q \in Runs : ImagesOf(q) <= 1}, c \in RetryConfigs}
  \cup {[run |-> r, config |-> c, pre |-> FALSE, again |-> FALSE] :
          r \in FanRuns \cap GalleryRuns, c \in OptionConfigs \cup {SerialConfig}}
  \cup {[run |-> r, config |-> SerialConfig, pre |-> FALSE, again |-> FALSE] :
          r \in NullRuns \cup OverlapRuns}
  \cup {[run |-> [r EXCEPT !.site.untitled = {1}], config |-> c, pre |-> FALSE,
          again |-> FALSE] :
          r \in {q \in FanRuns \cap GalleryRuns : ImagesOf(q) > 0 /\ q.site.nb = 1},
          c \in {NoRetryConfig, [NoRetryConfig EXCEPT !.seqFilenames = TRUE]}}
  \cup {[run |-> [r EXCEPT !.site.httpErrors = TRUE], config |-> c, pre |-> FALSE,
          again |-> FALSE] :
          r \in {q \in Runs : ImagesOf(q) <= 1 /\ Len(q.targets) = 1},
          c \in RetryConfigs \cup {[NoRetryConfig EXCEPT !.fullFilenames = TRUE]}}
  \cup {[run |-> [r EXCEPT !.site.setCookie = NoCookie], config |-> NoRetryConfig,
          pre |-> FALSE, again |-> FALSE] :
          r \in {q \in GalleryRuns : ImagesOf(q) = 1}}
  \cup {[run |-> r, config |-> c, pre |-> TRUE, again |-> FALSE] :
          r \in {q \in FanRuns : ImagesOf(q) > 0}, c \in {NoRetryConfig, OverwriteConfig}}
  \cup {[run |-> r, config |-> NoRetryConfig, pre |-> p, again |-> TRUE] :
          r \in {q \in FanRuns \cap GalleryRuns : ImagesOf(q) > 0 /\ Len(q.site.il) = 1},
          p \in BOOLEAN}

\* the context #process has built when it comes to the first gallery of target t
ContextAt(t) ==
  CASE t.t \in {"user", "folder"} ->
         [isFavorite |-> FALSE, galleryFolder |-> Folder(1, TRUE, TheUser)]
    [] t.t \in {"favs", "favfolder"} ->
         [isFavorite |-> TRUE, galleryFolder |-> Folder(FavFolderId(1), TRUE, TheUser)]
    [] OTHER -> EmptyContext

\* the path at which an earlier run of the same command has left the first image
FirstImagePath(t) ==
  LET title == IF config.fullFilenames THEN "T" ELSE "t"
  IN IF site.fav = "images"
     THEN PathOf(getGallerySavePath(NoGallery, ContextAt(t)),
                 ImageFilename(Image(FavImageId(1, 1), "T"), 0))
     ELSE PathOf(getGallerySavePath(GalleryRec(FirstGalleryId, TheUser), ContextAt(t)),
                 ImageFilename(Image(ImageId(FirstGalleryId, 1), title), 0))

NoFiles == [q \in {} |-> ""]

\* what the output directory holds before start(): nothing, or the first image
InitialFiles(pre) ==
  IF pre THEN WriteFile(NoFiles, FirstImagePath(targets[1]), "old") ELSE NoFiles

\* a downloader that has just been constructed
FreshRun ==
  /\ ti = 0
  /\ stack = <<>>
  /\ exc = NoError
  /\ pres = NoResult
  /\ context = EmptyContext
  /\ stats = getEmptyStats
  /\ combined = getEmptyStats
  /\ aborted = FALSE
  /\ session = "none"
  /\ held = <<>>
  /\ pq = <<>>
  /\ pj = IdleJob
  /\ pstop = FALSE
  /\ img = <<>>
  /\ istop = FALSE
  /\ parts = {}
  /\ hist = EmptyHist

\* start() has been called
RunStart == status = "running" /\ FreshRun

\* no earlier run
FirstRun ==
  [again |-> FALSE, second |-> FALSE, clean |-> FALSE, stats |-> getEmptyStats,
   files |-> NoFiles]

\* the process has ended (nothing is left on the event loop) and the same command
\* is started again: a new downloader, the same configuration, site and output tree
Rerun ==
  /\ prev.again /\ ~prev.second
  /\ status = "done" /\ pj.st = "idle" /\ pq = <<>> /\ Running = {}
  /\ prev' = [again  |-> TRUE,
              second |-> TRUE,
              clean  |-> ~aborted /\ ~hist.other /\ hist.bad = 0,
              stats  |-> combined,
              files  |-> files]
  /\ status' = "running"
  /\ ti' = 0
  /\ stack' = <<>>
  /\ exc' = NoError
  /\ pres' = NoResult
  /\ context' = EmptyContext
  /\ stats' = getEmptyStats
  /\ combined' = getEmptyStats
  /\ aborted' = FALSE
  /\ session' = "none"
  /\ held' = <<>>
  /\ pq' = <<>>
  /\ pj' = IdleJob
  /\ pstop' = FALSE
  /\ img' = <<>>
  /\ istop' = FALSE
  /\ hist' = EmptyHist
  /\ UNCHANGED <<cUrl, cType, config, site, targets, files, parts, cli, timers>>

(***************************************************************************)
(* The command line (ImageFapDownloaderCLI).  cli.pc tells where the       *)
(* process is: "lib" (the downloader is used as a library, no command      *)
(* line), "start" (start() has not run yet), "run" (awaiting               *)
(* downloader.start()), "ending" (exit() awaiting logger.end()),           *)
(* "returned" (start() has returned without calling exit()), "exited".     *)
(* cli.logger is "null" (this.#logger not set), "open" or "ended";         *)
(* cli.code the exit code of the process (-1 while it lives);              *)
(* cli.reported the positions of the target URLs reported invalid.         *)
(***************************************************************************)
\* an optional value is the empty set (undefined) or the set of the one value
pickDefined(value, defaultValue) ==
  IF value = {} THEN defaultValue ELSE CHOOSE v \in value : TRUE

\* the characters --dir-structure is made of
DirFlags == {"u", "v", "f", "g", "-"}

\* CLIOptionValidator.validateFlags: whether the value passes (it throws otherwise)
validateFlags(value) == value \subseteq DirFlags

\* getCLIOptions: the options of a command line whose values have passed
getCLIOptions(args) ==
  [args EXCEPT !.dirStructure = IF @ = {} THEN {"u", "v", "f", "g"} ELSE @]

\* a slip: "-" is not looked for
dirStructureOf_nodash(options) ==
  [user      |-> "u" \in options.dirStructure,
   favorites |-> "v" \in options.dirStructure,
   folder    |-> "f" \in options.dirStructure,
   gallery   |-> "g" \in options.dirStructure]

\* start(): the dirStructure handed to the downloader
dirStructureOf(options) ==
  IF "-" \in options.dirStructure
  THEN [user |-> FALSE, favorites |-> FALSE, folder |-> FALSE, gallery |-> FALSE]
  ELSE [user      |-> "u" \in options.dirStructure,
        favorites |-> "v" \in options.dirStructure,
        folder    |-> "f" \in options.dirStructure,
        gallery   |-> "g" \in options.dirStructure]

\* start(): the options handed to the downloader's constructor
downloaderOptions(options) ==
  LET d == dirStructureOf(options)
  IN [ dirStructure  |-> [user |-> {d.user}, favorites |-> {d.favorites},
                          folder |-> {d.folder}, gallery |-> {d.gallery}],
       seqFilenames  |-> {options.seqFilenames},
       fullFilenames |-> {options.fullFilenames},
       maxRetries    |-> options.maxRetries,
       maxConcurrent |-> options.maxConcurrent,
       minTimePage   |-> options.minTimePage,
       minTimeImage  |-> options.minTimeImage,
       proxy         |-> options.proxy,
       overwrite     |-> options.overwrite,
       saveJSON      |-> {~options.noJSON},
       saveHTML      |-> {~options.noHTML} ]

getDownloaderConfig(options) ==
  LET defaults == DEFAULT_DOWNLOADER_CONFIG
  IN [ dirStructure  |->
         [user      |-> pickDefined(options.dirStructure.user, defaults.dirStructure.user),
          favorites |-> pickDefined(options.dirStructure.favorites,
                                    defaults.dirStructure.favorites),
          folder    |-> pickDefined(options.dirStructure.folder, defaults.dirStructure.folder),
          gallery   |-> pickDefined(options.dirStructure.gallery,
                                    defaults.dirStructure.gallery)],
       seqFilenames  |-> pickDefined(options.seqFilenames, defaults.seqFilenames),
       fullFilenames |-> pickDefined(options.fullFilenames, defaults.fullFilenames),
       maxRetries    |-> pickDefined(options.maxRetries, defaults.maxRetries),
       maxConcurrent |-> pickDefined(options.maxConcurrent, defaults.maxConcurrent),
       minTimePage   |-> pickDefined(options.minTimePage, defaults.minTimePage),
       minTimeImage  |-> pickDefined(options.minTimeImage, defaults.minTimeImage),
       proxy         |-> IF options.proxy # {} THEN CHOOSE p \in options.proxy : TRUE
                         ELSE NoProxy,
       overwrite     |-> pickDefined(options.overwrite, defaults.overwrite),
       saveJSON      |-> pickDefined(options.saveJSON, defaults.saveJSON),
       saveHTML      |-> pickDefined(options.saveHTML, defaults.saveHTML) ]

NoCLI ==
  [pc |-> "lib", src |-> "cli", urls |-> <<>>, args |-> {}, logger |-> "null",
   exiting |-> -1, code |-> -1, reported |-> {}]

targetErrors_none(urls) == {}

\* the positions of the target URLs that getTargetTypeByURL throws on
targetErrors(urls) ==
  {i \in 1..Len(urls) : getTargetTypeByURL(URLOf(urls[i])) \in ClassifyErrors}

\* exit(code): awaits the logger's end() when there is a logger, then process.exit
exit(code, logger, reported) ==
  cli' = [cli EXCEPT !.pc = IF logger = "null" THEN "exited" ELSE "ending",
                     !.code = IF logger = "null" THEN code ELSE @,
                     !.exiting = code, !.logger = logger, !.reported = reported]

\* start(), up to its await of downloader.start()
CliStart ==
  /\ cli.pc = "start"
  /\ \E showUsage \in BOOLEAN, noPrompt \in BOOLEAN, confirmProceed \in BOOLEAN :
       LET invalid == targetErrors(cli.urls)
           proceed == noPrompt \/ confirmProceed
       IN IF showUsage
          THEN exit(0, "null", {}) /\ UNCHANGED <<config, targets, status>>
          ELSE IF \/ ~validateFlags(cli.args.dirStructure)
                  \/ cli.src = "cli" /\ URLOf(cli.urls[1]) = BadURL
          THEN exit(1, "null", {}) /\ UNCHANGED <<config, targets, status>>
          ELSE IF invalid # {}
          THEN /\ exit(1, "null", IF cli.src = "cli"
                                  THEN {CHOOSE i \in invalid : \A j \in invalid : i <= j}
                                  ELSE invalid)
               /\ UNCHANGED <<config, targets, status>>
          ELSE /\ config' = getDownloaderConfig(downloaderOptions(getCLIOptions(cli.args)))
               /\ targets' = cli.urls
               /\ IF proceed
                  THEN /\ cli' = [cli EXCEPT !.pc = "run", !.logger = "open"]
                       /\ status' = "running"
                  ELSE /\ exit(1, "open", {})
                       /\ UNCHANGED status
  /\ UNCHANGED <<cUrl, cType, site, prev, ti, stack, exc, pres, context, stats, combined,
                 aborted, session, held, pq, pj, pstop, img, istop, files, parts, hist,
                 timers>>

\* exit(), after its await: FileLogger.end() has resolved, process.exit(code)
CliLoggerEnd ==
  /\ cli.pc = "ending"
  /\ cli' = [cli EXCEPT !.pc = "exited", !.logger = "ended", !.code = cli.exiting]
  /\ UNCHANGED <<cUrl, cType, config, site, targets, prev, status, ti, stack, exc, pres,
                 context, stats, combined, aborted, session, held, pq, pj, pstop, img,
                 istop, files, parts, hist, timers>>

\* start(), after its await: downloader.start() has resolved (it never rejects:
\* its catch takes every error), and nothing follows the await
CliReturn ==
  /\ cli.pc = "run" /\ status = "done"
  /\ cli' = [cli EXCEPT !.pc = "returned"]
  /\ UNCHANGED <<cUrl, cType, config, site, targets, prev, status, ti, stack, exc, pres,
                 context, stats, combined, aborted, session, held, pq, pj, pstop, img,
                 istop, files, parts, hist, timers>>

\* nothing is left on the event loop: the process ends by itself, with code 0
ProcessEnd ==
  /\ cli.pc = "returned"
  /\ ~Busy /\ pj.st = "idle" /\ pq = <<>> /\ held = <<>> /\ Running = {}
  /\ session # "pending"
  /\ cli' = [cli EXCEPT !.pc = "exited", !.code = 0]
  /\ UNCHANGED <<cUrl, cType, config, site, targets, prev, status, ti, stack, exc, pres,
                 context, stats, combined, aborted, session, held, pq, pj, pstop, img,
                 istop, files, parts, hist, timers>>

Init ==
  /\ cUrl = BadURL
  /\ cType = "none"
  /\ \E c \in Cases :
       /\ targets = c.run.targets
       /\ site = c.run.site
       /\ config = c.config
       /\ files = InitialFiles(c.pre)
       /\ prev = [FirstRun EXCEPT !.again = c.again]
  /\ cli = NoCLI
  /\ timers = NoTimers
  /\ RunStart

\* the steps of a downloader that start() has been called on
RunNext ==
  \/ Abort
  \/ \E ok \in BOOLEAN : SessionRespond(ok)
  \/ PageDispatch
  \/ \E what \in {"ok", "bad", "status", "human", "fail"} : PageRespond(what)
  \/ PageWake
  \/ ImgDispatch
  \/ \E k \in 1..Len(img), what \in {"ok", "fail"} : ImgRespond(k, what)
  \/ \E k \in 1..Len(img), what \in {"done", "fail", "norename"} : ImgStream(k, what)
  \/ StartNext
  \/ StartFinish
  \/ StartCatch
  \/ StopDone
  \/ Enter
  \/ OnError
  \/ OnList
  \/ OnFolderPage
  \/ OnFavPage
  \/ OnLinks
  \/ OnGalleryPage
  \/ OnNav
  \/ OnFullTitle
  \/ \E failAt \in 0..3 : SaveGallery(failAt)
  \/ \E failAt \in 0..2 : SaveFavorites(failAt)
  \/ FanOut
  \/ FanDone
  \/ Loop
  \/ Catch

Next == RunNext \/ Rerun

Spec == Init /\ [][Next]_vars

(***************************************************************************)
(* The classifier on its own: any URL, one call.                           *)
(***************************************************************************)
\* a command line: --dir-structure, --max-retries and --max-concurrent as given,
\* every other option left out
Args(flags, retries, concurrent) ==
  [ dirStructure |-> flags, seqFilenames |-> FALSE, fullFilenames |-> FALSE,
    maxRetries |-> retries, maxConcurrent |-> concurrent, minTimePage |-> {},
    minTimeImage |-> {}, proxy |-> {}, overwrite |-> {}, noJSON |-> FALSE,
    noHTML |-> FALSE ]

\* the command lines the model starts: a file of targets (galleries, a photo,
\* lines that are no URL of the site), or one of these as the target; one URL
\* with every --dir-structure; one URL with retries and with one request at a
\* time; one gallery with --full-filenames
CliCases ==
  {c \in {[src |-> s, args |-> Args({}, {0}, {}),
           run |-> [targets |-> ts,
                    site    |-> SiteOf(1, <<1>>, <<1>>, 1, {}, "galleries", <<>>)]] :
            s \in {"file", "cli"},
            ts \in UNION {[1..n -> {Node("gallery", FirstGalleryId, 1), Node("invalid", 0, 0),
                                    Node("bad", 0, 0), Node("photo", 1, 0)}] :
                            n \in 0..MaxTargets}} :
     c.src = "cli" => Len(c.run.targets) = 1}
  \cup {[src |-> "cli", run |-> r, args |-> Args(flags, {0}, {})] :
          r \in {q \in Runs : ImagesOf(q) = 1 /\ Len(q.targets) = 1},
          flags \in SUBSET (DirFlags \cup {"x"})}
  \cup {[src |-> "cli", run |-> r, args |-> Args({}, {n}, c)] :
          r \in {q \in Runs : ImagesOf(q) <= 2 /\ Len(q.targets) = 1},
          n \in 0..MaxRetries, c \in {{}, {1}}}
  \cup {[src |-> "cli", run |-> r, args |-> a] :
          r \in {q \in GalleryRuns : ImagesOf(q) = 1},
          a \in {[Args({}, {0}, {}) EXCEPT !.fullFilenames = TRUE],
                 [Args({}, {0}, {}) EXCEPT !.proxy = {"http://proxy"}]}}

\* the process has started; start() has not run
InitCLI ==
  /\ cUrl = BadURL
  /\ cType = "none"
  /\ \E c \in CliCases :
       /\ site = c.run.site
       /\ cli = [pc |-> "start", src |-> c.src, urls |-> c.run.targets, args |-> c.args,
                 logger |-> "null", exiting |-> -1, code |-> -1, reported |-> {}]
  /\ config = DEFAULT_DOWNLOADER_CONFIG
  /\ targets = <<>>
  /\ files = NoFiles
  /\ prev = FirstRun
  /\ status = "none"
  /\ timers = [on |-> TRUE, running |-> <<>>]
  /\ FreshRun

\* time passes: the oldest of the running timers expire
Tick ==
  /\ ~Busy /\ timers.on /\ timers.running # <<>>
  /\ timers' = [timers EXCEPT !.running = Tail(@)]
  /\ UNCHANGED <<cUrl, cType, config, site, targets, prev, cli, status, ti, stack, exc, pres,
                 context, stats, combined, aborted, session, held, pq, pj, pstop, img,
                 istop, files, parts, hist>>

NextCLI == CliStart \/ CliLoggerEnd \/ CliReturn \/ ProcessEnd \/ Tick \/ RunNext

SpecCLI == InitCLI /\ [][NextCLI]_vars

InitClassify ==
  /\ \/ cUrl = BadURL
     \/ \E h \in Hosts, k \in 1..MaxSegs, p \in SUBSET ParamNames :
          \E s \in [1..k -> Segments] : cUrl = URL(h, s, p)
  /\ cType = "none"
  /\ targets = <<>>
  /\ site = SiteOf(1, <<>>, <<>>, 1, {}, "galleries", <<>>)
  /\ config = DEFAULT_DOWNLOADER_CONFIG
  /\ files = NoFiles
  /\ prev = FirstRun
  /\ cli = NoCLI
  /\ timers = NoTimers
  /\ RunStart

Classify ==
  /\ cType = "none"
  /\ cType' = getTargetTypeByURL(cUrl)
  /\ UNCHANGED <<cUrl, runVars>>

SpecClassify == InitClassify /\ [][Classify]_vars

(***************************************************************************)
(* Properties.                                                             *)
(***************************************************************************)
\* none of the fixed patterns matches the URL
NoPatternMatches(url) ==
  /\ ~userGalleriesPathnameRegex(url.segs)
  /\ ~galleryFolderPathnameRegex(url.segs)
  /\ ~galleryPathnameRegex(url.segs)
  /\ ~photoPathnameRegex(url.segs)
  /\ ~(url.segs = <<"usergallery.php">> /\ {"userid", "folderid"} \subseteq url.params)
  /\ ~(url.segs = <<"gallery.php">> /\ "gid" \in url.params)
  /\ ~(url.segs = <<"showfavorites.php">> /\ "userid" \in url.params)

KnownHost(url) == url.host \in {"imagefap.com", "www.imagefap.com"}

\* C10: classification is total and precedence-correct.  Every URL gives exactly
\* one target type or one of the four invalid-URL errors, an error exactly when
\* the URL does not parse, its host is not the site's, its path is "/" or no
\* pattern matches; on the site, a /profile/<user>/galleries path is a
\* galleryFolder with a folderid parameter and userGalleries without, and
\* showfavorites.php with a userid is a favoritesFolder with a folderid
\* parameter and favorites without.
C10_ClassificationTotal ==
  cType # "none" =>
    /\ cType \in TargetTypes \cup ClassifyErrors
    /\ cType = ERR_INVALID <=> ~cUrl.ok
    /\ cType = ERR_HOST <=> cUrl.ok /\ ~KnownHost(cUrl)
    /\ cType = ERR_NOPATH <=> cUrl.ok /\ KnownHost(cUrl) /\ cUrl.segs = <<"">>
    /\ cType = ERR_UNKNOWN <=>
          cUrl.ok /\ KnownHost(cUrl) /\ cUrl.segs # <<"">> /\ NoPatternMatches(cUrl)
    /\ (cUrl.ok /\ KnownHost(cUrl) /\ userGalleriesPathnameRegex(cUrl.segs)) =>
          cType = IF "folderid" \in cUrl.params THEN "galleryFolder" ELSE "userGalleries"
    /\ (cUrl.ok /\ KnownHost(cUrl) /\ cUrl.segs = <<"showfavorites.php">>
          /\ "userid" \in cUrl.params) =>
          cType = IF "folderid" \in cUrl.params THEN "favoritesFolder" ELSE "favorites"

\* a user-galleries path with a folderid parameter has been classified
C10_Witness ==
  /\ cType = "galleryFolder"
  /\ userGalleriesPathnameRegex(cUrl.segs)
  /\ "folderid" \in cUrl.params

LastCall == config.maxRetries + 1

\* C7: a page fetch that keeps failing non-fatally, with no cancellation, is
\* attempted exactly maxRetries + 1 times (3 + 1 by default) and then throws a
\* non-fatal FetcherError; it never fails earlier and is never attempted more
\* often; every retry waits config.request.minTime.page; and an attempt that
\* succeeds settles the fetch at once, with no further attempt.
C7_RetryBudget ==
  /\ DEFAULT_DOWNLOADER_CONFIG.maxRetries = 3
  /\ [](pj.calls <= LastCall)
  /\ [](pj.st = "sleeping" => pj.delay = config.minTimePage /\ pj.calls = pj.rt + 1)
  /\ [][(pj.st = "fetching" /\ pj' # pj /\ ~aborted) =>
         CASE pj'.got \in {"ok", "bad"} ->
                pj'.st = "idle" /\ pj'.res.ok /\ pj'.calls = pj.calls
           [] pj'.got = "fail" /\ pj.calls < LastCall ->
                pj'.st = "sleeping" /\ pj'.calls = pj.calls
           [] pj'.got = "fail" /\ pj.calls >= LastCall ->
                pj'.st = "idle" /\ pj'.res = Result(FALSE, FALSE, E_FETCH)
                /\ pj'.calls = LastCall
           [] OTHER -> TRUE]_vars
  /\ [][(pj.st = "sleeping" /\ pj' # pj) =>
         pj'.st = "fetching" /\ pj'.calls = pj.calls + 1]_vars

\* a fetch has thrown its non-fatal error after the last retry
C7_Witness ==
  /\ ~aborted /\ config.maxRetries >= 1
  /\ pj.st = "idle" /\ pj.res = Result(FALSE, FALSE, E_FETCH) /\ pj.calls = LastCall

\* C8: when the response of a page fetch is the human-verification page, the
\* fetch throws a fatal FetcherError at once: it does not wait for a retry,
\* whatever is left of maxRetries.
C8_FatalNoRetry ==
  /\ pj.got = "human" =>
       pj.st = "idle" /\ pj.res = Result(FALSE, FALSE, E_FATAL)
  /\ pj.st = "sleeping" => pj.got = "fail"

\* the first attempt of a fetch got the human-verification page, with retries left
C8_Witness ==
  /\ pj.got = "human" /\ pj.calls = 1 /\ config.maxRetries >= 1
  /\ pj.res.err = E_FATAL

\* a step of the same run (not the start of the second one)
SameRun == prev' = prev

\* in this step fetchHTML calls fetch() for a page
PageFetchStarts == pj.st # "fetching" /\ pj'.st = "fetching"

\* in this step Fetcher.downloadImage calls fetch() for image k of the fan-out
ImageFetchStarts(k) ==
  /\ k \in 1..Len(img') /\ img'[k].st = "fetching"
  /\ ~(k \in 1..Len(img) /\ img[k].st = "fetching")

\* C1 (as stated): once a page fetch has raised a fatal FetcherError, no page
\* fetch and no image download is started, no #process call is made for a
\* sibling link or a later target, and no gallery is counted as processed.
C1_FatalHaltsEverything ==
  [][(hist.fatal /\ SameRun) =>
       /\ ~PageFetchStarts
       /\ \A k \in 1..Len(img') : ~ImageFetchStarts(k)
       /\ Len(stack') <= Len(stack)
       /\ ti' = ti
       /\ stats'.processedGalleryCount <= stats.processedGalleryCount]_vars

\* the path #downloadImage gives image k of gallery g when the target is t
GalleryImagePath(t, g, k) ==
  PathOf(getGallerySavePath(GalleryRec(g, TheUser), ContextAt(t)),
         ImageFilename(Image(ImageId(g, k), IF config.fullFilenames THEN "T" ELSE "t"), k - 1))

\* the run of a folder has ended; the parser has thrown on one page, which made
\* the catch of one gallery skip it; nothing else has failed
OneGalleryFailedToParse ==
  /\ status = "done" /\ ~aborted /\ ~prev.second
  /\ targets = <<Node("folder", 1, 1)>>
  /\ site.nulls = {}
  /\ hist.bad = 1 /\ ~hist.other /\ Cardinality(hist.skipped) = 1

\* the other galleries are counted and every image of theirs is in the output tree
OthersComplete ==
  /\ combined.processedGalleryCount = Total(site.gl) - 1
  /\ \A j \in 1..Total(site.gl), k \in 1..Total(site.il) :
       GalleryId(1, j) \notin hist.skipped =>
         LET p == GalleryImagePath(targets[1], GalleryId(1, j), k)
         IN p \in DOMAIN files /\ files[p] = "image"

\* C2 (as stated): in a folder of K galleries where the processing of exactly one
\* gallery fails with a parse error and nothing else fails, the run ends with
\* processedGalleryCount = K - 1 and errorCount >= 1, and every image of the
\* other K - 1 galleries is downloaded.
C2_PartialFailureIsolation ==
  OneGalleryFailedToParse => OthersComplete /\ combined.errorCount >= 1

\* C3: in a fan-out every image is requested at most once; a failure of one
\* image, the signal not having fired, is never rethrown and drops no waiting
\* image: it adds exactly one to errorCount and changes no other image's call;
\* and a gallery whose images have all settled is counted as processed.
C3_ImageFailureIsolated ==
  /\ [](\A k \in 1..Len(img) :
          /\ img[k].calls <= 1
          /\ img[k].st \in {"done", "failed"} => img[k].calls = 1
          /\ img[k].st \in {"thrown", "dropped"} => aborted \/ hist.fatal)
  /\ [](\A k \in 1..Len(img) : img[k].st = "thrown" => aborted)
  /\ [][\A k \in 1..Len(img) :
          (img[k].st \in ImgInFlight /\ k \in 1..Len(img') /\ img'[k].st = "failed") =>
            /\ ~aborted
            /\ stats'.errorCount = stats.errorCount + 1
            /\ \A j \in 1..Len(img) : j # k => img'[j] = img[j]]_vars
  /\ []((status = "done" /\ Len(targets) = 1 /\ targets[1].t = "gallery"
          /\ img # <<>> /\ AllSettled) => combined.processedGalleryCount = 1)

\* a gallery is counted although its first image has failed, and the image
\* after it has been downloaded
C3_Witness ==
  /\ status = "done" /\ ~aborted /\ Len(img) >= 2
  /\ img[1].st = "failed" /\ img[2].st = "done"
  /\ combined.processedGalleryCount = 1 /\ combined.errorCount = 1

SecondRunAfterClean == prev.second /\ prev.clean /\ ~config.overwrite

\* the run has ended and nothing has failed in it
EndedClean == status = "done" /\ ~aborted /\ ~hist.other /\ hist.bad = 0

C6_SkipExisting ==
  /\ [][(stack # <<>> /\ Top.pc = "fan_out" /\ stack' # stack) =>
         LET existing == {k \in 1..Len(img) : img[k].path \in DOMAIN files}
             skip == IF config.overwrite THEN {} ELSE existing
         IN /\ Len(img') = Len(img)
            /\ \A k \in 1..Len(img) :
                 img'[k].st = IF k \in skip THEN "skipped" ELSE "queued"
            /\ stats' = [stats EXCEPT !.skippedExistingImageCount = @ + Cardinality(skip)]
            /\ files' = files]_vars
  /\ [](\A k \in 1..Len(img) :
          img[k].st = "skipped" => img[k].calls = 0 /\ ~config.overwrite)
  /\ [][\A k \in 1..Len(img) :
          img[k].st = "skipped" =>
            img[k].path \in DOMAIN files' /\ files'[img[k].path] = files[img[k].path]]_vars

\* an existing image has been skipped and left as it was, and another image of
\* the gallery has been downloaded
C6_Witness ==
  /\ ~config.overwrite /\ Len(img) >= 2
  /\ img[1].st = "skipped" /\ img[1].calls = 0 /\ files[img[1].path] = "old"
  /\ img[2].st = "done"
  /\ stats.skippedExistingImageCount = 1 /\ stats.downloadedImageCount = 1

FolderTraversed ==
  stack # <<>> /\ Top.type \in {"galleryFolder", "favoritesFolder"}
  /\ Top.pc = "loop" /\ Top.i = 0

\* no request has failed and no page has failed to parse so far
AllFetchesOk == ~hist.other /\ hist.bad = 0 /\ ~hist.fatal

\* the page sizes of the folder a helper's frame is about
FolderLayout(f) ==
  IF f.url.t = "favfolder" /\ site.fav # "galleries" THEN site.vl ELSE site.gl

\* C13: when a folder of N >= 1 items has been traversed with every fetch
\* succeeding, fetch() has been called once for each of its pages, in page order,
\* and for nothing else of the folder (ceil(N/P) calls when every page but the
\* last holds P items and the last at most P), and the aggregate holds the N
\* items of the folder in page order, none of them twice.
C13_PaginationComplete ==
  (FolderTraversed /\ AllFetchesOk /\ Total(FolderLayout(Top)) >= 1) =>
    LET lay  == FolderLayout(Top)
        N    == Total(lay)
        P    == lay[1]
        t    == Top.url.t
        a    == Top.url.a
        mine == SelectSeq(hist.fetches, LAMBDA n : n.t = t /\ n.a = a)
        items == IF Len(Top.images) > 0 THEN Top.images ELSE Top.links
    IN /\ mine = [p \in 1..Len(lay) |-> Node(t, a, p)]
       /\ ((\A p \in 1..Len(lay) : lay[p] <= P /\ (p < Len(lay) => lay[p] = P))
             => Len(mine) = (N + P - 1) \div P)
       /\ Top.url.b = Len(lay)
       /\ items = IF t = "favfolder" /\ site.fav # "galleries"
                  THEN [k \in 1..N |-> Image(FavImageId(a, k), "T")]
                  ELSE [k \in 1..N |-> Node(IF t = "favfolder" THEN "favgallery" ELSE "gallery",
                                            GalleryId(a, k), 1)]
       /\ \A i, j \in 1..Len(items) : items[i] = items[j] => i = j

C13_Witness ==
  /\ FolderTraversed /\ AllFetchesOk
  /\ Len(FolderLayout(Top)) >= 2
  /\ Len(Top.links) + Len(Top.images) = Total(FolderLayout(Top))

(***************************************************************************)
(* Save paths and file names.                                              *)
(***************************************************************************)
\* the images of a gallery, or of a favorites folder, are being downloaded
Fanning == stack # <<>> /\ Top.pc \in {"fan_out", "fan_wait"} /\ Len(img) > 0

\* C14, as the specification states it: the directory of every image has exactly
\* one segment per enabled flag (the Favorites flag counting in the favorites
\* branch only).
C14_OneSegmentPerFlag ==
  Fanning =>
    \A k \in 1..Len(img) :
      Len(img[k].path.dir)
        = Cardinality({x \in {"user", "folder", "gallery"} : config.dirStructure[x]})
          + (IF config.dirStructure.favorites /\ context.isFavorite THEN 1 ELSE 0)

\* C14, as the code has it: the directory of every image is made of, in this
\* order: the owner's (favorites branch) or uploader's segment if the user flag
\* is enabled; "Favorites" if the favorites flag is enabled, in the favorites
\* branch; the enclosing folder's segment if the folder flag is enabled and the
\* gallery was reached through a folder; the gallery's segment if the gallery
\* flag is enabled and the images are a gallery's (not a favorites folder's
\* own).  A disabled flag gives no segment.
C14_SavePathSegments ==
  Fanning =>
    \A k \in 1..Len(img) :
      LET d  == config.dirStructure
          cf == context.galleryFolder
      IN img[k].path.dir
           = (IF d.user THEN <<Seg("user", TheUser)>> ELSE <<>>)
             \o (IF d.favorites /\ context.isFavorite THEN <<Seg("Favorites", 0)>> ELSE <<>>)
             \o (IF d.folder /\ cf # NoFolder
                 THEN <<Seg("folder title (id)", cf.id)>> ELSE <<>>)
             \o (IF d.gallery /\ Top.type = "gallery"
                 THEN <<Seg("gallery title (id)", Top.node.a)>> ELSE <<>>)

\* the example of the specification: owner and gallery enabled, folder disabled
C14_Witness ==
  /\ Fanning /\ Top.type = "gallery" /\ ~context.isFavorite
  /\ context.galleryFolder # NoFolder
  /\ config.dirStructure.user /\ config.dirStructure.gallery /\ ~config.dirStructure.folder
  /\ img[1].path.dir = <<Seg("user", TheUser), Seg("gallery title (id)", Top.node.a)>>

\* C15: when --dir-structure contains "-", alone or with other flags, every
\* image the downloader saves or is about to save, and every other file it
\* writes, is directly in the output directory.
C15_DashMeansFlat ==
  (cli.pc # "lib" /\ "-" \in cli.args.dirStructure) =>
    /\ \A k \in 1..Len(img) : img[k].path.dir = <<>>
    /\ \A q \in DOMAIN files : q.dir = <<>>
    /\ \A q \in parts : q.dir = <<>>

C15_Witness ==
  /\ cli.pc # "lib" /\ {"-", "u", "g"} \subseteq cli.args.dirStructure
  /\ context.galleryFolder # NoFolder
  /\ \E q \in DOMAIN files : q.file.id # 0 /\ q.dir = <<>>

\* C16, as the specification states it: the name of every image file has the
\* " (id)" suffix, whether the image's title is known or not.
C16_SuffixAlways ==
  /\ \A k \in 1..Len(img) : img[k].path.file.withId
  /\ \A q \in DOMAIN files : q.file.id # 0 => q.file.withId

\* C16, as the code has it: the name of an image file is the sequence prefix
\* (only when sequential naming is enabled), then the title and " (id)" when the
\* title is known, and the id alone, without the suffix, when it is not.
C16_FilenameFormat ==
  /\ \A k \in 1..Len(img) :
       LET file == img[k].path.file
       IN /\ file.id = img[k].image.id
          /\ file.name = img[k].image.title
          /\ file.withId <=> img[k].image.title # ""
          /\ file.prefix >= 0 <=> config.seqFilenames
  /\ \A q \in DOMAIN files :
       q.file.id # 0 => /\ q.file.withId <=> q.file.name # ""
                        /\ q.file.prefix >= 0 <=> config.seqFilenames

\* a gallery with a titled and an untitled image, both saved
C16_Witness ==
  /\ \E q \in DOMAIN files : q.file.id # 0 /\ q.file.name = "" /\ ~q.file.withId
  /\ \E q \in DOMAIN files : q.file.id # 0 /\ q.file.name # "" /\ q.file.withId

\* C17: with sequential naming enabled, the prefix of the file name of every
\* image is the image's position (from 0) in the final list of its gallery or
\* favorites folder, at every moment of the concurrent downloads, and the file
\* of a finished download is there under that name.
C17_SeqPrefixIsPosition ==
  (config.seqFilenames /\ Fanning) =>
    \A k \in 1..Len(img) :
      /\ Len(Top.images) = Len(img)
      /\ img[k].image = Top.images[k]
      /\ img[k].path.file.prefix = k - 1
      /\ img[k].st = "done" => img[k].path \in DOMAIN files

\* the second image's download has completed while the first is still under way
C17_Witness ==
  /\ config.seqFilenames /\ Fanning /\ Len(img) >= 2
  /\ img[2].st = "done" /\ img[1].st \in ImgInFlight
  /\ img[2].path.file.prefix = 1 /\ img[2].path \in DOMAIN files

(***************************************************************************)
(* The spacing of the page requests.                                       *)
(***************************************************************************)
\* C18: fetch() is called for a page (the first call of a job of the limiter, or
\* a retry) only when at least config.request.minTime.page has passed since it
\* was last called for a page.
C18_PageRequestsSpaced ==
  [][(timers.on /\ pj'.st = "fetching" /\ pj.st # "fetching") => ~Pending("request")]_vars

(***************************************************************************)
(* The proxy.                                                              *)
(***************************************************************************)
\* C19: when a proxy is configured, every request under way (the request to the
\* site root, a page fetch or its retry, an image download) is sent through it.
C19_RequestsThroughProxy ==
  (config.proxy # NoProxy
   /\ (session = "pending" \/ pj.st = "fetching" \/ \E k \in 1..Len(img) : img[k].st \in ImgInFlight))
    => RouteOf(getInstance(cli.logger, config.proxy)) = config.proxy

(***************************************************************************)
(* The command line.                                                       *)
(***************************************************************************)
\* the process has ended after showing its usage (-h)
UsageShown == cli.pc = "exited" /\ cli.code = 0 /\ status = "none"

\* the positions of the command line's URLs that the classifier rejects
Rejected ==
  {i \in 1..Len(cli.urls) : getTargetTypeByURL(URLOf(cli.urls[i])) \in ClassifyErrors}

\* the target is a file that lists a URL the classifier rejects, and start() has run
RejectedInFile == cli.src = "file" /\ Rejected # {} /\ cli.pc \notin {"lib", "start"}

\* C11, as the specification states it: when the target file holds several URLs
\* and the classifier rejects one of them, the failure is reported for that URL
\* only and start() has taken every other target of the file by the time the
\* process ends.
C11_SiblingsProcessed ==
  (RejectedInFile /\ Len(cli.urls) > 1 /\ cli.pc = "exited" /\ ~UsageShown)
    => /\ cli.reported = Rejected
       /\ \A i \in (1..Len(cli.urls)) \ Rejected : i <= ti /\ targets[i] = cli.urls[i]

\* C11, as the code has it: when the target file lists a URL that the classifier
\* rejects, the process reports every rejected URL of the file and no other,
\* and exits with status 1 without constructing a downloader: no target is
\* processed, nothing is requested and nothing is written.
C11_RejectedTargetEndsList ==
  RejectedInFile
    => /\ cli.pc = "exited" /\ cli.logger = "null"
       /\ UsageShown \/ (cli.code = 1 /\ cli.reported = Rejected)
       /\ status = "none" /\ targets = <<>> /\ ti = 0
       /\ session = "none" /\ pj = IdleJob /\ img = <<>> /\ files = NoFiles

C11_Witness ==
  /\ RejectedInFile /\ cli.code = 1
  /\ Len(cli.urls) = 2 /\ Rejected = {2}
  /\ cli.urls[1].t = "gallery"

\* C12: when the process has ended after a run of the downloader, its exit
\* status is zero if start() took every target and left its loop without an
\* error, and non-zero if the run was aborted or an error ended it (start()'s
\* catch stopped the limiters).
C12_ExitStatusReflectsRun ==
  (cli.pc = "exited" /\ status = "done")
    => (cli.code = 0 <=> (~pstop /\ ~aborted /\ ti = Len(targets)))

\* C20: whenever the process has ended with a logger created, the logger's
\* end() has been called and has resolved before the exit.
C20_LoggerEndedBeforeExit == cli.pc = "exited" => cli.logger # "open"

(***************************************************************************)
(* The statistics.                                                         *)
(***************************************************************************)
Counters == {"processedGalleryCount", "skippedExistingImageCount", "downloadedImageCount",
             "errorCount"}

\* the sum of counter c over the first n stats of s
RECURSIVE SumOf(_, _, _)
SumOf(s, c, n) == IF n = 0 THEN 0 ELSE s[n][c] + SumOf(s, c, n - 1)

\* the entries of a collection of skipped folders
Entries(a) == {a[k] : k \in DOMAIN a}

GalleryFailure ==
  /\ Len(stack) >= 2 /\ Top.type = "gallery"
  /\ exc # NoError /\ ~isErrorNonContinuable(exc)

\* C22: a non-fatal failure raised while a gallery of a folder is processed (a
\* page that cannot be fetched or parsed, the directory or a sidecar file that
\* cannot be written), the signal not having fired, is caught in the gallery's
\* #process call, adds one to errorCount, and leaves the folder's loop in place
\* to take the next gallery.
C22_GalleryFailureCounted ==
  [][GalleryFailure =>
       /\ exc' = NoError
       /\ stats'.errorCount = stats.errorCount + 1
       /\ Len(stack') >= Len(stack) - 1]_vars

\* a page of a gallery could not be fetched or parsed, non-fatally, the signal
\* not having fired: the error is in the gallery's #process call
GalleryPageFailure ==
  /\ stack # <<>> /\ Top.type = "gallery" /\ Top.pc \in {"gi_wait", "nav_wait", "ft_wait"}
  /\ exc # NoError /\ ~isErrorNonContinuable(exc)

\* the failed page is a listing page after the first
ContinuationListingPage == Top.pc = "gi_wait" /\ Top.hasCur

\* the output tree holds something of gallery g other than what was there before the run
WrittenFor(g) ==
  \E q \in DOMAIN files :
    /\ files[q] # "old"
    /\ \/ q.file.id # 0 /\ q.file.id \div 10 = g
       \/ \E k \in 1..Len(q.dir) : q.dir[k] = Seg("gallery title (id)", g)

C24_ErrorStatusIsFailure ==
  /\ [][(pj.st = "fetching" /\ pj' # pj /\ pj'.got = "status") =>
          IF pj.calls < LastCall
          THEN pj'.st = "sleeping"
          ELSE pj'.st = "idle" /\ pj'.res = Result(FALSE, FALSE, E_FETCH)]_vars
  /\ [](pj.got = "status" => ~pres.ok)

(***************************************************************************)
(* The limiters when start() ends by an error.                             *)
(***************************************************************************)
\* an error that cancellation or a fatal FetcherError has raised has come out of
\* #process to start()
NonContinuableAtStart ==
  status = "running" /\ stack = <<>> /\ exc # NoError /\ isErrorNonContinuable(exc)

\* C25: when an error of cancellation or a fatal error reaches start(), start()
\* stops both limiters and the jobs that have not started are dropped; start()
\* returns only when no job of either limiter is executing; and once a limiter
\* is stopped it starts no job.
C25_LimitersStopped ==
  /\ [][NonContinuableAtStart =>
          /\ status' = "stopping" /\ pstop' /\ istop'
          /\ pq' = <<>> /\ held' = <<>>
          /\ \A k \in 1..Len(img') : img'[k].st # "queued"
          /\ \A k \in 1..Len(img) : img[k].st = "queued" => img'[k].st = "dropped"]_vars
  /\ []((status = "done" /\ (pstop \/ istop)) =>
          /\ pstop /\ istop
          /\ pj.st = "idle" /\ pq = <<>> /\ held = <<>>
          /\ \A k \in 1..Len(img) : img[k].st \notin ImgInFlight \cup {"queued", "new"})
  /\ [][(pstop /\ SameRun) => ~PageFetchStarts /\ pq' = <<>> /\ held' = <<>>]_vars
  /\ [][(istop /\ SameRun) => \A k \in 1..Len(img') : ~ImageFetchStarts(k)]_vars

\* start() has returned after the signal fired during a fan-out: the download
\* under way has ended and the waiting one was dropped
C25_Witness ==
  /\ status = "done" /\ aborted /\ pstop /\ istop /\ Len(img) >= 2
  /\ img[1].st = "thrown" /\ img[2].st = "dropped"

(***************************************************************************)
(* One page request at a time.                                             *)
(***************************************************************************)
\* C26: at most one call of fetch() for a page is unsettled at any time, and
\* none while the request to the site root that makes the fetcher is under way;
\* fetch() is called for a page (by the first attempt of a job, by a retry, for
\* one of the photo pages a favorites folder asks for together) only when no
\* earlier call is unsettled; with any maxConcurrent of the image limiter.
C26_OnePageFetchAtATime ==
  /\ [](hist.inflight \in {0, 1})
  /\ [](hist.inflight = 1 <=> pj.st = "fetching")
  /\ [](session = "pending" => hist.inflight = 0 /\ pj.st = "idle" /\ pq = <<>>)
  /\ [][PageFetchStarts => hist.inflight = 0 /\ hist'.inflight = 1]_vars

\* the photo pages of a favorites folder: the first is being fetched again after
\* a failed attempt, the second waits in the limiter
C26_Witness ==
  /\ pj.st = "fetching" /\ pj.slot = 1 /\ pj.rt = 1
  /\ Len(pq) >= 1 /\ pq[1].slot = 2
  /\ hist.inflight = 1

(***************************************************************************)
(* Failures of a page of a folder.                                         *)
(***************************************************************************)
\* an error has been raised in #getGalleryFolder or #getFavoritesFolder: the page
\* could not be fetched or parsed, or (favorites) one of its photo pages
FolderPageFailure ==
  /\ stack # <<>> /\ exc # NoError
  /\ Top.type \in {"galleryFolder", "favoritesFolder"}
  /\ Top.pc \in {"gf_wait", "ff_wait", "links_wait"}

\* C27: when a page after the first of a gallery folder or favorites folder
\* fails non-fatally, the signal not having fired, the error is caught there:
\* errorCount grows by one and no other counter changes, the gallery links and
\* images accumulated from the earlier pages stay as they are, no further page
\* of the folder is asked for, and #process goes on to its loop over the
\* accumulated links, from the first.
C27_ContinuationFailureKeeps ==
  [][(FolderPageFailure /\ Top.hasCur /\ ~isErrorNonContinuable(exc)) =>
       /\ exc' = NoError
       /\ stats' = [stats EXCEPT !.errorCount = @ + 1]
       /\ Len(stack') = Len(stack)
       /\ Top'.links = Top.links /\ Top'.images = Top.images /\ Top'.folder = Top.folder
       /\ Top'.pc = "loop" /\ Top'.i = 0
       /\ ~PageFetchStarts /\ pq' = pq /\ held' = held
       /\ context'.galleryFolder = Top.folder
       /\ status' = status]_vars

\* the second page of a gallery folder has failed: the loop is about to take the
\* galleries of the first page, with one error counted
C27_Witness ==
  /\ stack # <<>> /\ Top.type = "galleryFolder" /\ Top.pc = "loop" /\ Top.i = 0
  /\ Top.url # Top.node /\ Len(Top.links) >= 1 /\ Len(Top.links) < Total(site.gl)
  /\ stats.errorCount = 1 /\ ~aborted /\ ~hist.fatal

\* C28: when the first page of a gallery folder or favorites folder fails, no
\* `current` existing yet, the folder's catch rethrows whatever the error is:
\* nothing is counted there, the #process call of the folder ends with the error
\* without having taken any gallery or image, and from then on the error is
\* rethrown up to start(): no #process call is made below the folder.
C28_FirstPageFailurePropagates ==
  /\ [][(FolderPageFailure /\ ~Top.hasCur) =>
          /\ exc' = exc /\ stats' = stats
          /\ Top.links = <<>> /\ Top.images = <<>> /\ Top.i = 0
          /\ stack' = SubSeq(stack, 1, Len(stack) - 1)
          /\ ~PageFetchStarts /\ img' = img]_vars
  /\ [][(exc # NoError /\ stack # <<>> /\ Top.pc = "in_child") =>
          /\ exc' = exc /\ stats' = stats
          /\ stack' = SubSeq(stack, 1, Len(stack) - 1)
          /\ ~PageFetchStarts /\ img' = img]_vars

\* the first page of the second folder of a user has failed non-fatally: the
\* error has come out of the folder's #process call to the loop over the folders
C28_Witness ==
  /\ Len(stack) = 1 /\ Top.type = "userGalleries" /\ Top.pc = "in_child" /\ Top.i = 1
  /\ exc # NoError /\ ~isErrorNonContinuable(exc)
  /\ stats.errorCount = 0 /\ stats.processedGalleryCount = 1

(***************************************************************************)
(* Phase 2 of #getGallery: the navigation pages.                           *)
(***************************************************************************)
\* the batch Parser.parseImageNav gives for the navigation page that has come
Batch == IF pres.empty THEN <<>> ELSE NavImages(Top.node.a, Top.navIdx)

\* how many entries of a batch are null
NullsOf(b) == Cardinality({k \in 1..Len(b) : b[k] = 0})

\* the ids of the entries of a batch that are not null
ParsedOf(b) == SelectSeq(b, LAMBDA m : m # 0)

\* in this step the while loop asks for the navigation page after batch b,
\* from the index behind b and with the last parsed id of b as referrer
NextBatchAsked(b) ==
  /\ Len(stack') = Len(stack) /\ Top'.pc = "nav_wait"
  /\ Top'.navIdx = Top.navIdx + Len(b)
  /\ Len(pq') = Len(pq) + 1
  /\ pq'[Len(pq')].node.t = "nav" /\ pq'[Len(pq')].node.b = Top'.navIdx

NavAsked(ref, idx) ==
  /\ Top'.pc = "nav_wait" /\ Top'.ref = ref /\ Top'.navIdx = idx
  /\ Len(pq') = Len(pq) + 1 /\ pq'[Len(pq')] = PageJob(Node("nav", ref, idx), 0)

InGallery == stack # <<>> /\ Top.type = "gallery"

\* in this step the #process call on top of the stack ends
TopEnds == stack # <<>> /\ Len(stack') = Len(stack) - 1

\* C31: processedGalleryCount changes only by one, in the step that ends the
\* #process call of a gallery after Promise.all of its fan-out has fulfilled,
\* every image being downloaded, skipped or failed non-fatally (or when the
\* stats of the next target, or of a new run, start from zero); a #process call
\* of a gallery that ends so counts the gallery, once; one that ends because
\* #getGallery has thrown, a file could not be written, or a call of the
\* fan-out has rethrown a cancellation, counts nothing.
C31_ProcessedCountedAfterFanOut ==
  /\ [][stats'.processedGalleryCount # stats.processedGalleryCount =>
          \/ stats' = getEmptyStats
          \/ /\ stats' = [stats EXCEPT !.processedGalleryCount = @ + 1]
             /\ InGallery /\ Top.pc = "fan_wait" /\ TopEnds
             /\ exc = NoError /\ exc' = NoError
             /\ \A k \in 1..Len(img) : img[k].st \in {"done", "skipped", "failed"}]_vars
  /\ [][(InGallery /\ TopEnds /\ exc = NoError) =>
          stats'.processedGalleryCount = stats.processedGalleryCount + 1]_vars
  /\ [][(InGallery /\ exc # NoError) =>
          stats'.processedGalleryCount = stats.processedGalleryCount]_vars

\* a gallery of two images is counted once: one image was downloaded, the other
\* failed and was counted as an error
C31_Witness ==
  /\ status = "done" /\ ~aborted /\ targets = <<Node("gallery", FirstGalleryId, 1)>>
  /\ Len(img) = 2 /\ img[1].st = "done" /\ img[2].st = "failed"
  /\ combined.processedGalleryCount = 1 /\ combined.errorCount = 1
  /\ combined.downloadedImageCount = 1

(***************************************************************************)
(* The counts of a fan-out.                                                *)
(***************************************************************************)
\* how many calls of the fan-out are in state s
CallsIn(s) == Cardinality({k \in 1..Len(img) : img[k].st = s})

\* a fan-out is awaited: Promise.all has not settled
FanOutAwaited == stack # <<>> /\ Top.pc = "fan_wait" /\ exc = NoError

\* C32: at every moment of a fan-out, whatever the order in which the image
\* limiter starts the downloads and their responses and streams settle, each
\* counter has grown since the fan-out began by the number of calls that have
\* ended that way (downloaded, skipped as existing, failed non-fatally) and
\* processedGalleryCount not at all; so when the n calls of a fan-out have all
\* returned, the three increases sum to n.
C32_NoStatsUpdateLost ==
  /\ [](FanOutAwaited =>
          /\ stats.downloadedImageCount = hist.base.downloadedImageCount + CallsIn("done")
          /\ stats.skippedExistingImageCount =
               hist.base.skippedExistingImageCount + CallsIn("skipped")
          /\ stats.errorCount = hist.base.errorCount + CallsIn("failed")
          /\ stats.processedGalleryCount = hist.base.processedGalleryCount)
  /\ []((FanOutAwaited /\ AllSettled) =>
          (stats.downloadedImageCount + stats.skippedExistingImageCount + stats.errorCount)
          - (hist.base.downloadedImageCount + hist.base.skippedExistingImageCount
             + hist.base.errorCount) = Len(img))

\* three images of a favorites folder, downloaded ten at a time, have all ended:
\* the second has failed, the first and the third are downloaded
C32_Witness ==
  /\ FanOutAwaited /\ AllSettled /\ Len(img) = 3 /\ config.maxConcurrent > 1
  /\ img[1].st = "done" /\ img[2].st = "failed" /\ img[3].st = "done"
  /\ stats.errorCount = 1 /\ stats.downloadedImageCount = 2

(***************************************************************************)
(* The DownloadContext between sibling folders.                            *)
(***************************************************************************)
\* C33: whenever the loop of case 'userGalleries' or 'favorites' is about to
\* take a folder, or is over, the context it holds and passes on is the one it
\* was called with (at the top level: the empty one), whatever folders it has
\* processed before.
C33_ContextUnchangedForSibling ==
  (Len(stack) = 1 /\ Top.type \in {"userGalleries", "favorites"} /\ Top.pc = "loop")
    => context = EmptyContext

(***************************************************************************)
(* The images of a gallery record.                                         *)
(***************************************************************************)
\* C34: in the images of a gallery that #process hands to the fan-out no id
\* occurs twice, whatever the navigation pages have returned.
C34_ImageIdsUnique ==
  (stack # <<>> /\ Top.type = "gallery" /\ Top.pc \in {"fan_out", "fan_wait"}) =>
    \A j, k \in 1..Len(img) : img[j].image.id = img[k].image.id => j = k

(***************************************************************************)
(* The session: the request to the site root and its cookie.               *)
(***************************************************************************)
\* in this step Fetcher.getInstance sends its request to the site root
SessionStarts == session # "pending" /\ session' = "pending"

\* C35, as the specification states it: Fetcher.getInstance sends its request
\* once in a run: when it is sent, no such request has been made before.
C35_SessionRequestedOnce ==
  [][SessionStarts => hist.sessions = 0]_vars

\* C35, as the code has it: Fetcher.getInstance sends its request when a page is
\* asked for and no fetcher exists, before any page has been fetched: the first
\* time for the first page of the run, and again only after such a request has
\* failed; once a request has succeeded the fetcher is kept and no other is
\* sent; every fetch() of a page, first attempt or retry, and every fetch() of
\* an image is made with the fetcher there and carries as its Cookie header the
\* Set-Cookie value of the response (no Cookie header when it had none).
C35_OneSessionCookieEverywhere ==
  /\ [][SessionStarts =>
          /\ session = "none" /\ pj = IdleJob /\ pq = <<>> /\ img = <<>>
          /\ hist.inflight = 0
          /\ hist.sessions = 0 \/ hist.other]_vars
  /\ [][(session = "ready" /\ SameRun) => session' = "ready"]_vars
  /\ [][(session = "pending" /\ session' # "pending") =>
          /\ hist'.sessions = hist.sessions + 1
          /\ session' = "ready" \/ (session' = "none" /\ hist'.other)]_vars
  /\ [](pj.st = "fetching" =>
          /\ session = "ready"
          /\ pj.sent.url = pj.node /\ pj.sent.cookie = site.setCookie)
  /\ [](\A k \in 1..Len(img) : img[k].st = "fetching" =>
          /\ session = "ready"
          /\ img[k].sent.cookie = site.setCookie)

\* the request to the site root failed for the first target and succeeded for
\* the second: an image is being fetched with the cookie, after a page that
\* was fetched twice
C35_Witness ==
  /\ session = "ready" /\ site.setCookie = "sid" /\ pj.calls = 2 /\ pj.got = "ok"
  /\ hist.sessions = 2 /\ ti = 2
  /\ \E k \in 1..Len(img) : img[k].st = "fetching" /\ img[k].sent.cookie = "sid"

(***************************************************************************)
(* The request of a retry.                                                 *)
(***************************************************************************)
\* C36: when fetchHTML calls fetch() again after a failed attempt, the request
\* has the URL and the caller's headers of the request before it (for a
\* navigation page: its Content-Type and its Referer).
C36_RetrySendsSameRequest ==
  [][(pj.st = "sleeping" /\ pj'.st = "fetching") =>
       /\ pj'.sent.url = pj.sent.url
       /\ pj'.sent.headers = pj.sent.headers]_vars

(***************************************************************************)
(* Phase 2 ends.                                                           *)
(***************************************************************************)
\* the run under a fair event loop: a step that can be taken (a response or an
\* error of a request that is out, a timer that has run out, the thread's next
\* stretch) is taken in the end
SpecLive == Spec /\ WF_vars(RunNext)

\* C37: for a gallery of L image links #getGallery asks for at most L
\* navigation pages, and for none when L = 0: while a navigation page is
\* awaited the entries received are fewer than L and at least as many as the
\* pages received; a batch that is followed by another adds at least one entry;
\* no navigation page is asked for after the loop has ended; and under a fair
\* event loop a gallery that awaits a navigation page comes to await none.
C37_PhaseTwoBounded ==
  /\ (stack # <<>> /\ Top.pc = "nav_wait") ~> (stack = <<>> \/ Top.pc # "nav_wait")
  /\ [](\A i \in 1..Len(stack) :
          /\ stack[i].navs <= Len(stack[i].imageLinks)
          /\ stack[i].pc = "nav_wait" =>
               /\ stack[i].total < Len(stack[i].imageLinks)
               /\ stack[i].navs <= stack[i].total + 1
               /\ stack[i].navIdx = stack[i].total)
  /\ [][(PageOk("nav_wait") /\ Top'.pc = "nav_wait") =>
          /\ Top'.total > Top.total /\ Top'.navs = Top.navs + 1]_vars
  /\ [][(InGallery /\ Len(stack') = Len(stack) /\ Top.pc \in {"ft_wait", "save", "fan_out", "fan_wait"})
          => Top'.navs = Top.navs /\ Top'.pc # "nav_wait"]_vars
  /\ [][(\E k \in 1..Len(pq') : pq'[k].node.t = "nav" /\ ~(k \in 1..Len(pq) /\ pq[k] = pq'[k]))
          => Top'.pc = "nav_wait" /\ Top'.navs > Top.navs]_vars

\* a gallery of three links, served one entry a page, has asked for its third
\* navigation page
C37_Witness ==
  /\ stack # <<>> /\ Top.pc = "nav_wait" /\ Len(Top.imageLinks) = 3
  /\ Top.navs = 3 /\ Top.total = 2 /\ site.nb = 1

(***************************************************************************)
(* The folder of a gallery's save path.                                    *)
(***************************************************************************)
\* the #process call that has made the call on top of the stack
Caller == stack[Len(stack) - 1]

\* C38: whenever the save path of a gallery is computed, the context holds no
\* folder and no favorites mark if the gallery is a target of its own, and
\* otherwise the folder record that the calling folder's own pages gave, the
\* gallery being the link of that folder the loop is at, and the favorites mark
\* exactly if that folder is a favorites folder; the images of a favorites
\* folder are saved under that folder.
C38_SavePathFolderIsOwn ==
  /\ (InGallery /\ Top.pc = "save" /\ Len(stack) = 1) =>
        /\ context = EmptyContext
        /\ \A k \in 1..Len(getGallerySavePath(GalleryRec(Top.node.a, TheUser), context)) :
             getGallerySavePath(GalleryRec(Top.node.a, TheUser), context)[k].k
               \notin {"folder title (id)", "folder id", "Favorites"}
  /\ (InGallery /\ Top.pc = "save" /\ Len(stack) > 1) =>
        /\ Caller.type \in {"galleryFolder", "favoritesFolder"} /\ Caller.pc = "in_child"
        /\ Caller.i < Len(Caller.links) /\ Caller.links[Caller.i + 1] = Top.node
        /\ \E p \in 1..Len(site.gl) :
             \E j \in 1..Len(GalleryLinks(Node(Caller.node.t, Caller.node.a, p))) :
               Top.node = GalleryLinks(Node(Caller.node.t, Caller.node.a, p))[j]
        /\ context.galleryFolder = Caller.folder
        /\ Caller.folder = FolderOf(Caller.node)
        /\ context.isFavorite = (Caller.type = "favoritesFolder")
  /\ (stack # <<>> /\ Top.pc = "fav_save") =>
        /\ Top.type = "favoritesFolder"
        /\ context = [isFavorite |-> TRUE, galleryFolder |-> FolderOf(Top.node)]

\* the second folder of a user's galleries page: its gallery is about to be
\* saved, and the context holds the second folder
C38_Witness ==
  /\ InGallery /\ Top.pc = "save" /\ Len(stack) = 3
  /\ stack[1].type = "userGalleries" /\ stack[1].i = 1
  /\ context.galleryFolder = FolderOf(stack[2].node) /\ context.galleryFolder.id = 2

(***************************************************************************)
(* The targets the command line lets through, and #process.                *)
(***************************************************************************)
\* C39: while the command line runs the downloader, its targets all validated
\* (the classifier threw on none of them), no #process call ends with the
\* "Unsupported target type" error: every type the classifier returns has its
\* case in #process.
C39_ValidatedTargetIsHandled ==
  (cli.pc = "run" /\ targetErrors(cli.urls) = {} /\ targets = cli.urls) => exc # E_TYPE

====
